---- MODULE Spec2Model ----
(***************************************************************************)
(* Carpool planner: the commute-matching engine of the matches router      *)
(* (GET /api/matches, POST /api/matches/compute) over the users,           *)
(* commute_preferences and match_results tables.                           *)
(*                                                                         *)
(* Numbers.  JavaScript numbers that carry minutes or miles are kept in    *)
(* fixed point: one unit is 1/Scale of a minute (or of a mile), so that a  *)
(* Distance Matrix duration of s seconds, s / 60 minutes, is the integer   *)
(* 10 * s, a rounded value "one decimal place" is a whole number of        *)
(* tenths, and (viaOther - directToWork) * 2 keeps its form.  Schedule     *)
(* overlaps are whole minutes, as in the code.                             *)
(***************************************************************************)
EXTENDS Integers, Sequences, FiniteSets, TLC

VARIABLES users, prefs, matches, net, run, nextRun, lastDone, edits,
          interests, out, hood, put

vars == <<users, prefs, matches, net, run, nextRun, lastDone, edits,
          interests, out, hood, put>>

(***************************************************************************)
(* Bounds of the model.                                                    *)
(***************************************************************************)
\* compute requests accepted in one behaviour
MaxRuns == 3
\* preference edits accepted in one behaviour
MaxEdits == 1
\* PUT /api/preferences requests accepted in one behaviour
MaxPuts == 2
\* interest requests (POST or DELETE) accepted in one behaviour
MaxInterestOps == 3
\* GET /api/matches requests accepted in one behaviour
MaxGets == 1

(***************************************************************************)
(* Program constants.                                                      *)
(***************************************************************************)
\* units per minute and per mile
Scale == 600
\* DETOUR_THRESHOLD_MIN default, minutes
DETOUR_THRESHOLD_MIN == 15
\* DISTANCE_THRESHOLD_MI default, miles
DISTANCE_THRESHOLD_MI == 30
\* W_DETOUR = 1.0 and W_OVERLAP = 0.5, in tenths
W_DETOUR_TENTHS == 10
W_OVERLAP_TENTHS == 5

DETOUR_THRESHOLD == DETOUR_THRESHOLD_MIN * Scale
DISTANCE_THRESHOLD == DISTANCE_THRESHOLD_MI * Scale

\* null of a nullable number (a coordinate, a duration): below every value
NULL == -9999999
\* NaN of a minute count (no time or overlap is negative)
NaN == -1

Max(a, b) == IF a >= b THEN a ELSE b
Min(a, b) == IF a <= b THEN a ELSE b

\* Math.max / Math.min: NaN if either argument is NaN
MathMax(a, b) == IF a = NaN \/ b = NaN THEN NaN ELSE Max(a, b)
MathMin(a, b) == IF a = NaN \/ b = NaN THEN NaN ELSE Min(a, b)

\* Math.round(x * 10) / 10 of a value in units, as a number of tenths:
\* Math.round rounds half up (towards +Infinity), \div is the floor division
Round1(x) == (x + (Scale \div 20)) \div (Scale \div 10)

(***************************************************************************)
(* Users and places.  Coordinates are in 1/10000 degree.                   *)
(***************************************************************************)
Users == {"u1", "u2", "u3"}
\* the order in which the users table returns its rows
UserOrder == <<"u1", "u2", "u3">>

PtA == [lat |-> 430700, lng |-> -894000]
PtB == [lat |-> 430800, lng |-> -894000]
PtC == [lat |-> 433000, lng |-> -894000]
PtF == [lat |-> 436000, lng |-> -894000]
PtG == [lat |-> 426360, lng |-> -893835]
\* WORK_LAT, WORK_LNG defaults
WorkPoint == [lat |-> 429914, lng |-> -895326]
NoHome == [lat |-> NULL, lng |-> NULL]

Points == {PtA, PtB, PtC, PtF, PtG, WorkPoint}

\* haversine(...) of the code for the places above, in units of 1/Scale mile
\* (R = 3959): A-B 0.691, A-C 15.892, A-F 36.622, A-W 8.623, B-C 15.202,
\* B-F 35.931, B-W 9.074, C-F 20.729, C-W 22.347, F-W 42.578 miles.
\* G lies 29.999997 miles from A, which is 30.000 at the precision of the
\* table and passes the code's <= 30 as well; A-G 30.000, B-G 30.691,
\* C-G 45.888, F-G 66.615, G-W 25.694 miles.
HaversineTable ==
  { <<PtA, PtB, 415>>, <<PtA, PtC, 9535>>, <<PtA, PtF, 21973>>,
    <<PtA, WorkPoint, 5174>>, <<PtB, PtC, 9121>>, <<PtB, PtF, 21558>>,
    <<PtB, WorkPoint, 5444>>, <<PtC, PtF, 12438>>, <<PtC, WorkPoint, 13408>>,
    <<PtF, WorkPoint, 25547>>,
    <<PtA, PtG, 18000>>, <<PtB, PtG, 18414>>, <<PtC, PtG, 27533>>,
    <<PtF, PtG, 39969>>, <<PtG, WorkPoint, 15416>> }

haversine(p, q) ==
  IF p = q THEN 0
  ELSE (CHOOSE e \in HaversineTable :
          (e[1] = p /\ e[2] = q) \/ (e[1] = q /\ e[2] = p))[3]

(***************************************************************************)
(* Time strings: sequences of one-character strings.                       *)
(***************************************************************************)
Digits == <<"0", "1", "2", "3", "4", "5", "6", "7", "8", "9">>
IsDigit(c) == \E k \in 1..10 : Digits[k] = c
DigitVal(c) == (CHOOSE k \in 1..10 : Digits[k] = c) - 1

RECURSIVE DecimalValue(_)
DecimalValue(s) ==
  IF s = <<>> THEN 0
  ELSE 10 * DecimalValue(SubSeq(s, 1, Len(s) - 1)) + DigitVal(s[Len(s)])

\* Number(s) on the strings of the model's alphabet (digits, ":" and letters):
\* "" is 0, a run of digits is its decimal value, anything else is NaN
Number(s) ==
  IF \A k \in 1..Len(s) : IsDigit(s[k]) THEN DecimalValue(s) ELSE NaN

\* t.split(':')
RECURSIVE SplitColon(_)
SplitColon(t) ==
  IF \A k \in 1..Len(t) : t[k] # ":" THEN <<t>>
  ELSE LET k == CHOOSE k \in 1..Len(t) :
                  t[k] = ":" /\ \A j \in 1..(k - 1) : t[j] # ":"
       IN <<SubSeq(t, 1, k - 1)>> \o SplitColon(SubSeq(t, k + 1, Len(t)))

timeToMinutes(t) ==
  LET parts == SplitColon(t)
      h == Number(parts[1])
      m == IF Len(parts) >= 2 THEN Number(parts[2]) ELSE NaN
  IN IF h = NaN \/ m = NaN THEN NaN ELSE h * 60 + m

\* days1.filter(d => days2.includes(d))
commonDaysOf(days1, days2) ==
  SelectSeq(days1, LAMBDA d : \E k \in 1..Len(days2) : days2[k] = d)

\* faulty variant: touching windows count as one minute
computeOverlapInclusive(earliest1, latest1, days1, earliest2, latest2, days2) ==
  LET commonDays == commonDaysOf(days1, days2)
      start == MathMax(timeToMinutes(earliest1), timeToMinutes(earliest2))
      end == MathMin(timeToMinutes(latest1), timeToMinutes(latest2))
  IN IF Len(commonDays) = 0
       THEN [overlapMinutes |-> 0, commonDays |-> <<>>]
       ELSE [overlapMinutes |->
               IF start = NaN \/ end = NaN THEN NaN ELSE Max(0, end - start + 1),
             commonDays |-> commonDays]

computeOverlap(earliest1, latest1, days1, earliest2, latest2, days2) ==
  LET commonDays == commonDaysOf(days1, days2)
      start == MathMax(timeToMinutes(earliest1), timeToMinutes(earliest2))
      end == MathMin(timeToMinutes(latest1), timeToMinutes(latest2))
  IN IF Len(commonDays) = 0
       THEN [overlapMinutes |-> 0, commonDays |-> <<>>]
       ELSE [overlapMinutes |->
               IF start = NaN \/ end = NaN THEN NaN ELSE Max(0, end - start),
             commonDays |-> commonDays]

\* faulty variant: a rider is compatible with a driver only
rolesCompatibleDriverOnly(role1, role2) ==
  ~(role1 = "RIDER" /\ role2 # "DRIVER")

rolesCompatible(role1, role2) == ~(role1 = "RIDER" /\ role2 = "RIDER")

(***************************************************************************)
(* The commute_preferences rows of the model.                              *)
(***************************************************************************)
T0700 == <<"0", "7", ":", "0", "0">>
T0800 == <<"0", "8", ":", "0", "0">>
T0830 == <<"0", "8", ":", "3", "0">>
T0900 == <<"0", "9", ":", "0", "0">>
T0930 == <<"0", "9", ":", "3", "0">>
T1700 == <<"1", "7", ":", "0", "0">>
T1730 == <<"1", "7", ":", "3", "0">>
T1800 == <<"1", "8", ":", "0", "0">>
T1830 == <<"1", "8", ":", "3", "0">>

\* a row that was in the table before the first request has id 0
PrefRow(d, e, l, days, role) ==
  [id |-> 0, direction |-> d, earliest_time |-> e, latest_time |-> l,
   days_of_week |-> days, role |-> role]

\* the rows one user may hold, in the order the table returns them
PrefsA == << PrefRow("TO_WORK", T0700, T0830, <<0, 1, 2>>, "EITHER"),
             PrefRow("FROM_WORK", T1700, T1800, <<0, 1, 2>>, "DRIVER") >>
PrefsB == << PrefRow("TO_WORK", T0800, T0900, <<1, 2, 3>>, "RIDER") >>
PrefsC == << PrefRow("TO_WORK", T0830, T0930, <<0, 1>>, "RIDER"),
             PrefRow("FROM_WORK", T1730, T1830, <<4>>, "EITHER") >>
PrefChoices == {<<>>, PrefsA, PrefsB, PrefsC}

(***************************************************************************)
(* The routing collaborator (Google Distance Matrix).                      *)
(***************************************************************************)
\* duration.value in seconds of each leg the service knows
DriveSeconds ==
  { <<PtA, WorkPoint, 900>>, <<PtB, WorkPoint, 600>>, <<PtC, WorkPoint, 1500>>,
    <<PtF, WorkPoint, 2700>>,
    <<PtA, PtB, 120>>, <<PtA, PtC, 301>>, <<PtB, PtA, 600>>,
    <<PtB, PtC, 1000>>, <<PtC, PtA, 902>>, <<PtC, PtB, 1201>>,
    <<PtA, PtF, 2400>>, <<PtB, PtF, 2400>>, <<PtC, PtF, 2400>>,
    <<PtF, PtA, 2400>>, <<PtF, PtB, 2400>>, <<PtF, PtC, 2400>>,
    <<PtG, WorkPoint, 2100>>, <<PtA, PtG, 2000>>, <<PtG, PtA, 1700>>,
    <<PtB, PtG, 2050>>, <<PtG, PtB, 2050>> }

durationValue(o, d) ==
  IF o = d THEN 0
  ELSE (CHOOSE e \in DriveSeconds : e[1] = o /\ e[2] = d)[3]

\* what the service answers: whether a key is configured, the outcome of the
\* first and of the second request ("OK", another status, or a network
\* error), and the legs whose element status is not OK
NetChoices ==
  { [apiKey |-> FALSE, status1 |-> "OK", status2 |-> "OK", down |-> {}] }
  \cup { [apiKey |-> TRUE, status1 |-> "THROW", status2 |-> "OK", down |-> {}] }
  \cup { [apiKey |-> TRUE, status1 |-> s1, status2 |-> s2, down |-> {}] :
           s1 \in {"OK", "REQUEST_DENIED"},
           s2 \in {"OK", "REQUEST_DENIED", "THROW"} }
  \cup { [apiKey |-> TRUE, status1 |-> "OK", status2 |-> "OK", down |-> {l}] :
           l \in { <<PtC, PtA>>, <<PtB, WorkPoint>>, <<PtC, WorkPoint>> } }

\* getDistanceMatrixMinutes once the response has arrived: <<>> stands for
\* null, an element is NULL or duration.value / 60 in units
getDistanceMatrixMinutes(origins, destinations, status) ==
  IF status # "OK" THEN <<>>
  ELSE [o \in 1..Len(origins) |->
         [d \in 1..Len(destinations) |->
           IF <<origins[o], destinations[d]>> \in net.down THEN NULL
           ELSE durationValue(origins[o], destinations[d]) * (Scale \div 60)]]

(***************************************************************************)
(* One compute request.                                                    *)
(***************************************************************************)
Slots == {1, 2}
\* the slots of requests that are served one after the other
SerialSlots == {1}

\* no call outside the compute requests has returned yet
NoOut == [op |-> "none"]

\* null of a nullable text column
NullText == "null"

\* users.home_neighborhood of the rows of the model before the first request
HoodAtStart ==
  [u \in Users |-> IF u = "u1" THEN "Downtown"
                   ELSE IF u = "u2" THEN "Shorewood" ELSE NullText]

\* PUT /api/preferences requests that may be in progress together
PutSlots == {1, 2}
NoPut == [pc |-> "idle", userId |-> "", served |-> 0,
          direction |-> "", earliest_time |-> <<>>, latest_time |-> <<>>,
          days_of_week |-> [kind |-> "missing", items |-> <<>>], role |-> "",
          existing |-> <<>>, status |-> 0, error |-> "", rows |-> <<>>,
          \* history of the request, for the properties
          ops |-> <<>>]

NoResponse == [status |-> 0, error |-> "", computed |-> 0, matches |-> <<>>]
NoneDone == [user |-> "", content |-> {}, count |-> 0, returned |-> <<>>,
             inputs |-> <<>>]

IdleRun ==
  [pc |-> "idle", userId |-> "", runNo |-> 0, currentUser |-> NoHome,
   myPrefs |-> <<>>, otherUsers |-> <<>>, candidates |-> <<>>,
   driverToRiderMin |-> <<>>, driverToWorkMin |-> NULL, riderToWorkMin |-> <<>>,
   i |-> 0, otherPrefs |-> <<>>, combo |-> 0, detourMinutes |-> 0,
   newMatches |-> <<>>, response |-> NoResponse,
   \* history of the request, for the properties
   ops |-> <<>>, before |-> {}, detours |-> <<>>, prefsRead |-> <<>>,
   paired |-> {}, inserted |-> {}, prevDone |-> NoneDone,
   sent |-> <<>>, examined |-> <<>>, peerInserted |-> {}]

\* !x of a nullable number
Falsy(x) == x = NULL \/ x = 0

\* faulty variant: the list is returned in insertion order
Unsorted(list) == list

\* the stable sort of newMatches.sort((a, b) => a.rank_score - b.rank_score)
RECURSIVE InsertByRank(_, _)
InsertByRank(sorted, e) ==
  IF sorted = <<>> THEN <<e>>
  ELSE IF sorted[Len(sorted)].rank_score <= e.rank_score THEN Append(sorted, e)
  ELSE Append(InsertByRank(SubSeq(sorted, 1, Len(sorted) - 1), e),
              sorted[Len(sorted)])

RECURSIVE SortByRank(_)
SortByRank(list) ==
  IF list = <<>> THEN <<>>
  ELSE InsertByRank(SortByRank(SubSeq(list, 1, Len(list) - 1)), list[Len(list)])

\* res.json({ computed, matches }) after the sort
Finish(r) ==
  [r EXCEPT !.pc = "done",
            !.response = [status |-> 200, error |-> "",
                          computed |-> Len(r.newMatches),
                          matches |-> SortByRank(r.newMatches)]]

Reject(r, why) ==
  [r EXCEPT !.pc = "done",
            !.response = [status |-> 400, error |-> why, computed |-> 0,
                          matches |-> <<>>]]

\* SELECT * FROM users WHERE id != $1 AND home_lat IS NOT NULL AND
\* home_lng IS NOT NULL
OtherUsersOf(userId) ==
  LET pick(u) == u # userId /\ users[u].lat # NULL /\ users[u].lng # NULL
      ids == SelectSeq(UserOrder, pick)
  IN [k \in 1..Len(ids) |-> [id |-> ids[k], home |-> users[ids[k]]]]

\* faulty variant: a home at the threshold itself is filtered out
WithinDistanceStrict(currentUser, other) ==
  haversine(currentUser, other.home) < DISTANCE_THRESHOLD

\* the Haversine pre-filter
WithinDistance(currentUser, other) ==
  haversine(currentUser, other.home) <= DISTANCE_THRESHOLD

CandidatesOf(currentUser, otherUsers) ==
  SelectSeq(otherUsers, LAMBDA other : WithinDistance(currentUser, other))

\* faulty variants of the DELETE: one side of the pair only
DeleteOnlyUserA(store, userId) == { m \in store : m.user_a_id # userId }
DeleteOnlyUserB(store, userId) == { m \in store : m.user_b_id # userId }

\* faulty variant: the DELETE without its WHERE clause
DeleteAllMatches(store, userId) == {}

\* DELETE FROM match_results WHERE user_a_id = $1 OR user_b_id = $1
DeleteMatchesOf(store, userId) ==
  { m \in store : ~(m.user_a_id = userId \/ m.user_b_id = userId) }

\* faulty variant: exact mode only if no leg of any candidate is missing
HasAllDriveTimes(r, i) ==
  /\ r.driverToRiderMin # <<>>
  /\ r.driverToWorkMin # NULL
  /\ r.riderToWorkMin # <<>>
  /\ \A k \in 1..Len(r.candidates) :
       r.driverToRiderMin[k] # NULL /\ r.riderToWorkMin[k] # NULL

\* the condition under which the Distance Matrix times are used for
\* candidate i
HasDriveTimes(r, i) ==
  /\ r.driverToRiderMin # <<>>
  /\ r.driverToWorkMin # NULL
  /\ r.riderToWorkMin # <<>>
  /\ r.driverToRiderMin[i] # NULL
  /\ r.riderToWorkMin[i] # NULL

\* faulty variant: a candidate on the way keeps its negative difference
ExactDetourUnclamped(driverToRider, riderToWork, driverToWork) ==
  driverToRider + riderToWork - driverToWork

ExactDetour(driverToRider, riderToWork, driverToWork) ==
  Max(0, driverToRider + riderToWork - driverToWork)

\* ~2 min/mile suburban
HaversineDetour(currentUser, other) ==
  LET directToWork == haversine(currentUser, WorkPoint)
      viaOther == haversine(currentUser, other.home)
                    + haversine(other.home, WorkPoint)
  IN Max(0, (viaOther - directToWork) * 2)

DetourOf(r, i) ==
  IF HasDriveTimes(r, i)
    THEN ExactDetour(r.driverToRiderMin[i], r.riderToWorkMin[i],
                     r.driverToWorkMin)
    ELSE HaversineDetour(r.currentUser, r.candidates[i])

\* faulty variant: the threshold itself is dropped too
DroppedAtThreshold(detourMinutes) == detourMinutes >= DETOUR_THRESHOLD

\* if (detourMinutes > DETOUR_THRESHOLD) continue
Dropped(detourMinutes) == detourMinutes > DETOUR_THRESHOLD

\* the three tests of one (myPref, otherPref) combination
Accepts(myPref, otherPref) ==
  LET o == computeOverlap(myPref.earliest_time, myPref.latest_time,
                          myPref.days_of_week, otherPref.earliest_time,
                          otherPref.latest_time, otherPref.days_of_week)
  IN /\ myPref.direction = otherPref.direction
     /\ rolesCompatible(myPref.role, otherPref.role)
     /\ ~(o.overlapMinutes = 0 \/ Len(o.commonDays) = 0)

\* combination k of the nested loops: myPref outer, otherPref inner
ComboMy(r, k) == r.myPrefs[((k - 1) \div Len(r.otherPrefs)) + 1]
ComboOther(r, k) == r.otherPrefs[((k - 1) % Len(r.otherPrefs)) + 1]

\* faulty variant: the loops stop at a candidate's first accepted combination
NextAcceptedOnce(r, from) ==
  LET n == Len(r.myPrefs) * Len(r.otherPrefs)
      ok == { k \in 1..n : Accepts(ComboMy(r, k), ComboOther(r, k)) }
  IN IF from > 0 \/ ok = {} THEN 0 ELSE CHOOSE k \in ok : \A j \in ok : k <= j

\* the first accepted combination after combination `from`, 0 if none
NextAccepted(r, from) ==
  LET n == Len(r.myPrefs) * Len(r.otherPrefs)
      ok == { k \in (from + 1)..n : Accepts(ComboMy(r, k), ComboOther(r, k)) }
  IN IF ok = {} THEN 0 ELSE CHOOSE k \in ok : \A j \in ok : k <= j

\* rankScore = detourMinutes * W_DETOUR - overlapMinutes * W_OVERLAP
RankScore(detourMinutes, overlapMinutes) ==
  (detourMinutes * W_DETOUR_TENTHS
     - overlapMinutes * Scale * W_OVERLAP_TENTHS) \div 10

\* the control flow between two awaits
AfterCandidate(r) ==
  IF r.i < Len(r.candidates)
    THEN [r EXCEPT !.pc = "loop", !.i = r.i + 1]
    ELSE Finish(r)

Pairing(r, from) ==
  LET k == NextAccepted(r, from)
  IN IF k = 0 THEN AfterCandidate(r)
     ELSE [r EXCEPT !.pc = "insert", !.combo = k]

EnterLoop(r) ==
  IF Len(r.candidates) = 0 THEN Finish(r)
  ELSE [r EXCEPT !.pc = "loop", !.i = 1]

\* faulty variant: the INSERT takes the rounded detour and score
StoredRowRounded(r) ==
  LET my == ComboMy(r, r.combo)
      other == ComboOther(r, r.combo)
      o == computeOverlap(my.earliest_time, my.latest_time, my.days_of_week,
                          other.earliest_time, other.latest_time,
                          other.days_of_week)
  IN [id |-> <<r.runNo, Len(r.newMatches) + 1>>,
      user_a_id |-> r.userId, user_b_id |-> r.candidates[r.i].id,
      direction |-> my.direction,
      detour_minutes |-> Round1(r.detourMinutes) * (Scale \div 10),
      time_overlap_minutes |-> o.overlapMinutes,
      rank_score |-> Round1(RankScore(r.detourMinutes, o.overlapMinutes))
                       * (Scale \div 10)]

\* the values of the INSERT and the entry pushed on newMatches
StoredRow(r) ==
  LET my == ComboMy(r, r.combo)
      other == ComboOther(r, r.combo)
      o == computeOverlap(my.earliest_time, my.latest_time, my.days_of_week,
                          other.earliest_time, other.latest_time,
                          other.days_of_week)
  IN [id |-> <<r.runNo, Len(r.newMatches) + 1>>,
      user_a_id |-> r.userId, user_b_id |-> r.candidates[r.i].id,
      direction |-> my.direction, detour_minutes |-> r.detourMinutes,
      time_overlap_minutes |-> o.overlapMinutes,
      rank_score |-> RankScore(r.detourMinutes, o.overlapMinutes)]

ReturnedEntry(r, row) ==
  [id |-> row.id, partner_name |-> r.candidates[r.i].id,
   direction |-> row.direction,
   detour_minutes |-> Round1(row.detour_minutes),
   time_overlap_minutes |-> row.time_overlap_minutes,
   rank_score |-> Round1(row.rank_score)]

(***************************************************************************)
(* History: the last compute request that was answered 200.                *)
(***************************************************************************)
Content(m) ==
  [user_a_id |-> m.user_a_id, user_b_id |-> m.user_b_id,
   direction |-> m.direction, detour_minutes |-> m.detour_minutes,
   time_overlap_minutes |-> m.time_overlap_minutes,
   rank_score |-> m.rank_score]

Unnamed(e) ==
  [partner_name |-> e.partner_name, direction |-> e.direction,
   detour_minutes |-> e.detour_minutes,
   time_overlap_minutes |-> e.time_overlap_minutes,
   rank_score |-> e.rank_score]

Snapshot(r, store) ==
  [user |-> r.userId, content |-> { Content(m) : m \in store },
   count |-> Cardinality(store),
   returned |-> [k \in 1..Len(r.response.matches) |->
                   Unnamed(r.response.matches[k])],
   inputs |-> <<users, prefs, net>>]

\* one step of request s: its new state and the new store
Step(s, r, store) ==
  /\ run' = [run EXCEPT ![s] = r]
  /\ matches' = store
  /\ lastDone' = IF r.pc = "done" /\ r.response.status = 200
                   THEN Snapshot(r, store) ELSE lastDone
  /\ UNCHANGED <<hood, put, users, prefs, net, edits, interests, out>>

Log(r, op) == [r EXCEPT !.ops = Append(r.ops, op)]

\* a Distance Matrix request leaves with these origins and destinations
LogFetch(r, origins, destinations) ==
  [Log(r, "fetch") EXCEPT !.sent = Append(r.sent,
     [origins |-> origins, destinations |-> destinations])]

(***************************************************************************)
(* POST /api/matches/compute, one action per awaited operation.            *)
(***************************************************************************)
\* the request arrives: SELECT the user, check the home location
ComputeStart(s, u) ==
  /\ run[s].pc \in {"idle", "done"}
  /\ nextRun <= MaxRuns
  /\ nextRun' = nextRun + 1
  /\ LET r == [IdleRun EXCEPT !.userId = u, !.runNo = nextRun,
                               !.currentUser = users[u], !.before = matches,
                               !.prevDone = lastDone,
                               !.ops = <<"SELECT user">>]
     IN IF Falsy(r.currentUser.lat) \/ Falsy(r.currentUser.lng)
          THEN Step(s, Reject(r, "home address"), matches)
          ELSE Step(s, [r EXCEPT !.pc = "prefs"], matches)

\* faulty variant: no check that the requester has preferences
LoadMyPrefsUnchecked(s) ==
  /\ run[s].pc = "prefs"
  /\ Step(s, Log([run[s] EXCEPT !.pc = "others",
                                !.myPrefs = prefs[run[s].userId]],
                 "SELECT prefs"), matches)
  /\ UNCHANGED nextRun

\* SELECT the requester's preferences
LoadMyPrefs(s) ==
  /\ run[s].pc = "prefs"
  /\ LET r == Log([run[s] EXCEPT !.myPrefs = prefs[run[s].userId]],
                  "SELECT prefs")
     IN IF Len(r.myPrefs) = 0
          THEN Step(s, Reject(r, "preferences"), matches)
          ELSE Step(s, [r EXCEPT !.pc = "others"], matches)
  /\ UNCHANGED nextRun

\* SELECT the other users with addresses
LoadOthers(s) ==
  /\ run[s].pc = "others"
  /\ Step(s, Log([run[s] EXCEPT !.pc = "delete",
                                !.otherUsers = OtherUsersOf(run[s].userId)],
                 "SELECT others"), matches)
  /\ UNCHANGED nextRun

\* faulty variant: the Distance Matrix is asked even without a key
DeleteOldAlwaysAsks(s) ==
  /\ run[s].pc = "delete"
  /\ LET r == Log([run[s] EXCEPT
                     !.candidates =
                        CandidatesOf(run[s].currentUser, run[s].otherUsers),
                     \* history: the requests in progress elsewhere that
                     \* have inserted a row by now
                     !.peerInserted =
                        { run[t].runNo :
                            t \in { x \in Slots \ {s} :
                                      run[x].inserted # {} } }],
                  "DELETE")
         store == DeleteMatchesOf(matches, r.userId)
     IN IF Len(r.candidates) > 0
          THEN Step(s, [r EXCEPT !.pc = "call1"], store)
          ELSE Step(s, EnterLoop(r), store)
  /\ UNCHANGED nextRun

\* clear the old matches, then pre-filter the candidates
DeleteOld(s) ==
  /\ run[s].pc = "delete"
  /\ LET r == Log([run[s] EXCEPT
                     !.candidates =
                        CandidatesOf(run[s].currentUser, run[s].otherUsers),
                     \* history: the requests in progress elsewhere that
                     \* have inserted a row by now
                     !.peerInserted =
                        { run[t].runNo :
                            t \in { x \in Slots \ {s} :
                                      run[x].inserted # {} } }],
                  "DELETE")
         store == DeleteMatchesOf(matches, r.userId)
     IN IF net.apiKey /\ Len(r.candidates) > 0
          THEN Step(s, [r EXCEPT !.pc = "call1"], store)
          ELSE Step(s, EnterLoop(r), store)
  /\ UNCHANGED nextRun

CandidatePoints(r) == [k \in 1..Len(r.candidates) |-> r.candidates[k].home]

\* faulty variant: a network error of the first request is not caught
Call1Uncaught(s) ==
  /\ run[s].pc = "call1"
  /\ LET r == LogFetch(run[s], <<run[s].currentUser>>,
                       Append(CandidatePoints(run[s]), WorkPoint))
         call1 == getDistanceMatrixMinutes(<<r.currentUser>>,
                    Append(CandidatePoints(r), WorkPoint), net.status1)
         n == Len(r.candidates)
     IN IF net.status1 = "THROW"
          THEN Step(s, [r EXCEPT !.pc = "done",
                          !.response = [status |-> 500, error |-> "fetch",
                                        computed |-> 0, matches |-> <<>>]],
                    matches)
        ELSE IF call1 # <<>>
          THEN Step(s, [r EXCEPT !.pc = "call2",
                          !.driverToRiderMin = SubSeq(call1[1], 1, n),
                          !.driverToWorkMin = call1[1][n + 1]], matches)
          ELSE Step(s, [r EXCEPT !.pc = "call2"], matches)
  /\ UNCHANGED nextRun

\* Call 1: currentUser -> candidates + work
Call1(s) ==
  /\ run[s].pc = "call1"
  /\ LET r == LogFetch(run[s], <<run[s].currentUser>>,
                       Append(CandidatePoints(run[s]), WorkPoint))
         call1 == getDistanceMatrixMinutes(<<r.currentUser>>,
                    Append(CandidatePoints(r), WorkPoint), net.status1)
         n == Len(r.candidates)
     IN IF net.status1 = "THROW" THEN Step(s, EnterLoop(r), matches)
        ELSE IF call1 # <<>>
          THEN Step(s, [r EXCEPT !.pc = "call2",
                          !.driverToRiderMin = SubSeq(call1[1], 1, n),
                          !.driverToWorkMin = call1[1][n + 1]], matches)
          ELSE Step(s, [r EXCEPT !.pc = "call2"], matches)
  /\ UNCHANGED nextRun

\* faulty variant: the second request is sent twice
Call2Retried(s) ==
  /\ run[s].pc = "call2"
  /\ LET r == LogFetch(LogFetch(run[s], CandidatePoints(run[s]),
                                <<WorkPoint>>),
                       CandidatePoints(run[s]), <<WorkPoint>>)
         call2 == getDistanceMatrixMinutes(CandidatePoints(r), <<WorkPoint>>,
                                           net.status2)
     IN IF net.status2 = "THROW" THEN Step(s, EnterLoop(r), matches)
        ELSE IF call2 # <<>>
          THEN Step(s, EnterLoop([r EXCEPT !.riderToWorkMin =
                         [k \in 1..Len(call2) |-> call2[k][1]]]), matches)
          ELSE Step(s, EnterLoop(r), matches)
  /\ UNCHANGED nextRun

\* Call 2: candidates -> work
Call2(s) ==
  /\ run[s].pc = "call2"
  /\ LET r == LogFetch(run[s], CandidatePoints(run[s]), <<WorkPoint>>)
         call2 == getDistanceMatrixMinutes(CandidatePoints(r), <<WorkPoint>>,
                                           net.status2)
     IN IF net.status2 = "THROW" THEN Step(s, EnterLoop(r), matches)
        ELSE IF call2 # <<>>
          THEN Step(s, EnterLoop([r EXCEPT !.riderToWorkMin =
                         [k \in 1..Len(call2) |-> call2[k][1]]]), matches)
          ELSE Step(s, EnterLoop(r), matches)
  /\ UNCHANGED nextRun

\* SELECT candidate i's preferences, compute its detour, apply the gate and
\* run the pairing loops up to the first INSERT
ReadOtherPrefs(s) ==
  /\ run[s].pc = "loop"
  /\ LET r0 == Log(run[s], "SELECT otherPrefs")
         detour == DetourOf(r0, r0.i)
         r == [r0 EXCEPT !.otherPrefs = prefs[r0.candidates[r0.i].id],
                         !.detourMinutes = detour,
                         !.detours = Append(r0.detours, detour),
                         !.examined = Append(r0.examined,
                                             r0.candidates[r0.i].id),
                         !.prefsRead = Append(r0.prefsRead,
                                         prefs[r0.candidates[r0.i].id])]
     IN IF Dropped(detour)
          THEN Step(s, AfterCandidate(r), matches)
          ELSE Step(s, Pairing([r EXCEPT !.paired = r.paired \cup {r.i}], 0),
                    matches)
  /\ UNCHANGED nextRun

\* faulty variant: a row equal to a stored one (id aside) is not inserted
InsertMatchOnce(s) ==
  /\ run[s].pc = "insert"
  /\ LET r0 == Log(run[s], "INSERT")
         row == StoredRow(r0)
         r == [r0 EXCEPT !.newMatches = Append(r0.newMatches,
                                               ReturnedEntry(r0, row))]
     IN IF \E m \in matches : Content(m) = Content(row)
          THEN Step(s, Pairing(r, r.combo), matches)
          ELSE Step(s, Pairing([r EXCEPT !.inserted = r0.inserted \cup {row}],
                               r.combo), matches \cup {row})
  /\ UNCHANGED nextRun

\* INSERT INTO match_results, push on newMatches, continue the loops
InsertMatch(s) ==
  /\ run[s].pc = "insert"
  /\ LET r0 == Log(run[s], "INSERT")
         row == StoredRow(r0)
         r == [r0 EXCEPT !.newMatches = Append(r0.newMatches,
                                               ReturnedEntry(r0, row)),
                         !.inserted = r0.inserted \cup {row}]
     IN Step(s, Pairing(r, r.combo), matches \cup {row})
  /\ UNCHANGED nextRun

(***************************************************************************)
(* DELETE /api/preferences/:direction                                      *)
(***************************************************************************)
DeletePreference(u, direction) ==
  /\ \A s \in Slots : run[s].pc \in {"idle", "done"}
  /\ edits < MaxEdits
  /\ edits' = edits + 1
  /\ prefs' = [prefs EXCEPT ![u] =
                 SelectSeq(prefs[u], LAMBDA p : p.direction # direction)]
  /\ UNCHANGED <<hood, put, users, matches, net, run, nextRun, lastDone,
                 interests, out>>

(***************************************************************************)
(* Specifications.                                                         *)
(***************************************************************************)
HomeChoices ==
  { h \in [Users -> {PtA, PtB, PtC, PtF, PtG, NoHome}] :
      /\ h["u1"] \in {PtA, NoHome}
      /\ h["u2"] = PtB
      /\ h["u3"] \in {PtC, PtF, PtG} }

Init ==
  /\ users \in HomeChoices
  /\ prefs \in [Users -> PrefChoices]
  /\ matches = {}
  /\ net \in NetChoices
  /\ run = [s \in Slots |-> IdleRun]
  /\ nextRun = 1
  /\ lastDone = NoneDone
  /\ edits = 0
  /\ interests = {}
  /\ out = NoOut
  /\ hood = HoodAtStart
  /\ put = [p \in PutSlots |-> NoPut]

\* one step of the compute request in slot s
ComputeStep(s) ==
  \/ \E u \in Users : ComputeStart(s, u)
  \/ LoadMyPrefs(s)
  \/ LoadOthers(s)
  \/ DeleteOld(s)
  \/ Call1(s)
  \/ Call2(s)
  \/ ReadOtherPrefs(s)
  \/ InsertMatch(s)

\* compute requests served one after the other, over fixed profiles and
\* preferences
Next == \E s \in SerialSlots : ComputeStep(s)

Spec == Init /\ [][Next]_vars

\* the same, with preference deletions between the requests
InitEdit ==
  /\ Init
  /\ users["u3"] = PtC
  /\ prefs \in [Users -> {PrefsA, PrefsB}]
  /\ net.status1 = "OK" /\ net.status2 = "OK" /\ net.down = {}

NextEdit ==
  \/ \E s \in SerialSlots : ComputeStep(s)
  \/ \E u \in Users, d \in {"TO_WORK", "FROM_WORK"} : DeletePreference(u, d)

SpecEdit == InitEdit /\ [][NextEdit]_vars

\* compute requests of two connections whose awaited operations interleave
InitConc ==
  /\ Init
  /\ users["u1"] = PtA /\ users["u3"] = PtC
  /\ prefs = [u \in Users |-> IF u = "u2" THEN PrefsB ELSE PrefsA]
  /\ net.status1 = "OK" /\ net.status2 = "OK" /\ net.down = {}

\* the users whose requests interleave
ConcUsers == {"u1", "u2"}

\* a rejected pool.query is not caught by the handler: depending on the
\* Express version the rejection reaches the default error handler, which
\* answers 500, or nothing is answered at all (status 0)
FailureStatuses == {0, 500}

Fail(r, status) ==
  [r EXCEPT !.pc = IF status = 0 THEN "failed" ELSE "done",
            !.response = [status |-> status, error |-> "Internal Server Error",
                          computed |-> 0, matches |-> <<>>]]

\* the SELECT of candidate i's preferences is rejected
ReadOtherPrefsFails(s) ==
  /\ run[s].pc = "loop"
  /\ \E status \in FailureStatuses :
       Step(s, Fail(Log(run[s], "SELECT otherPrefs"), status), matches)
  /\ UNCHANGED nextRun

\* faulty variant: the rows the request deleted and inserted are restored
InsertMatchFailsRestoring(s) ==
  /\ run[s].pc = "insert"
  /\ \E status \in FailureStatuses :
       Step(s, Fail(Log(run[s], "INSERT"), status), run[s].before)
  /\ UNCHANGED nextRun

\* the INSERT is rejected
InsertMatchFails(s) ==
  /\ run[s].pc = "insert"
  /\ \E status \in FailureStatuses :
       Step(s, Fail(Log(run[s], "INSERT"), status), matches)
  /\ UNCHANGED nextRun

\* one step of the compute request in slot s, of a user among who
ComputeStepOf(s, who) ==
  \/ \E u \in who : ComputeStart(s, u)
  \/ LoadMyPrefs(s)
  \/ LoadOthers(s)
  \/ DeleteOld(s)
  \/ Call1(s)
  \/ Call2(s)
  \/ ReadOtherPrefs(s)
  \/ InsertMatch(s)

NextConc == \E s \in Slots : ComputeStepOf(s, ConcUsers)

SpecConc == InitConc /\ [][NextConc]_vars

\* compute requests served one after the other, over a store whose queries
\* may be rejected inside the candidate loop
NextFail ==
  \E s \in SerialSlots :
    \/ ComputeStepOf(s, Users)
    \/ ReadOtherPrefsFails(s)
    \/ InsertMatchFails(s)

SpecFail == InitConc /\ [][NextFail]_vars

(***************************************************************************)
(* The exported functions of the matching engine, called on their own.     *)
(***************************************************************************)
T0000 == <<"0", "0", ":", "0", "0">>
T2359 == <<"2", "3", ":", "5", "9">>

\* strings handed to timeToMinutes: times of day, and strings that are not
\* two digits, a colon and two digits
TimeStrings ==
  { T0000, T0700, T0830, T1730, T2359,
    <<"7", ":", "0", "0">>, <<"0", "7", ":", "5">>, <<"7", ":", "5">>,
    <<"0", "7", "0", "0">>, <<>>, <<":">>, <<"0", "7", ":">>,
    <<"a", "b", ":", "c", "d">>, <<"0", "7", ":", "0", "0", ":", "3", "0">>,
    <<"0", "7", ":", "0", "0", "0">>, <<"0", "7", ":", "x", "0">> }

Roles == {"DRIVER", "RIDER", "EITHER"}
\* window ends and day lists handed to computeOverlap
WindowEnds == {T0700, T0800, T0830, T0900}
DayLists == { <<>>, <<0, 1, 2>>, <<1, 2, 3>>, <<4>>, <<2, 0>> }

Returned(op, args, value) ==
  [op |-> op, args |-> args, threw |-> FALSE, value |-> value]

CallTimeToMinutes(t) ==
  /\ out = NoOut
  /\ out' = Returned("timeToMinutes", <<t>>, timeToMinutes(t))
  /\ UNCHANGED <<hood, put, users, prefs, matches, net, run, nextRun, lastDone, edits,
                 interests>>

CallComputeOverlap(earliest1, latest1, days1, earliest2, latest2, days2) ==
  /\ out = NoOut
  /\ out' = Returned("computeOverlap",
                     <<earliest1, latest1, days1, earliest2, latest2, days2>>,
                     computeOverlap(earliest1, latest1, days1,
                                    earliest2, latest2, days2))
  /\ UNCHANGED <<hood, put, users, prefs, matches, net, run, nextRun, lastDone, edits,
                 interests>>

CallRolesCompatible(role1, role2) ==
  /\ out = NoOut
  /\ out' = Returned("rolesCompatible", <<role1, role2>>,
                     rolesCompatible(role1, role2))
  /\ UNCHANGED <<hood, put, users, prefs, matches, net, run, nextRun, lastDone, edits,
                 interests>>

\* the stores play no part in these calls, and a call leaves nothing behind
\* for the next one: a behaviour makes one call
InitFn ==
  /\ Init
  /\ users["u1"] = PtA /\ users["u3"] = PtC
  /\ prefs = [u \in Users |-> <<>>]
  /\ ~net.apiKey

NextFn ==
  \/ \E t \in TimeStrings : CallTimeToMinutes(t)
  \/ \E e1 \in WindowEnds, l1 \in WindowEnds, e2 \in WindowEnds,
        l2 \in WindowEnds, d1 \in DayLists, d2 \in DayLists :
        CallComputeOverlap(e1, l1, d1, e2, l2, d2)
  \/ \E r1 \in Roles, r2 \in Roles : CallRolesCompatible(r1, r2)

SpecFn == InitFn /\ [][NextFn]_vars

(***************************************************************************)
(* GET /api/matches                                                        *)
(***************************************************************************)
\* users.home_neighborhood, as the profile update left it: a name found by
\* the geocoder, or null
home_neighborhood(u) == hood[u]

\* x || null of a nullable text
OrNull(x) == IF x = NullText \/ x = "" THEN NullText ELSE x

\* one row of the SELECT for the user $1
MatchRowFor(m, userId) ==
  LET partner == IF m.user_a_id = userId THEN m.user_b_id ELSE m.user_a_id
  IN [id |-> m.id, user_a_id |-> m.user_a_id, user_b_id |-> m.user_b_id,
      direction |-> m.direction, detour_minutes |-> m.detour_minutes,
      time_overlap_minutes |-> m.time_overlap_minutes,
      rank_score |-> m.rank_score,
      partner_name |-> partner,
      partner_neighborhood |-> home_neighborhood(partner),
      partner_id |-> partner,
      i_expressed_interest |->
        [from_user_id |-> userId, to_user_id |-> partner,
         direction |-> m.direction] \in interests,
      they_expressed_interest |->
        [from_user_id |-> partner, to_user_id |-> userId,
         direction |-> m.direction] \in interests]

\* ORDER BY mr.rank_score ASC: every order of the rows in which the scores
\* do not decrease (rows of equal score come in any order)
RECURSIVE Orderings(_)
Orderings(rows) ==
  IF rows = {} THEN { <<>> }
  ELSE UNION { { <<m>> \o rest : rest \in Orderings(rows \ {m}) } :
               m \in { x \in rows :
                         \A y \in rows : x.rank_score <= y.rank_score } }

\* faulty variant: partner_neighborhood stays in the entry
SanitizedKeeping(row) ==
  [f \in DOMAIN row \cup {"partner_address"} |->
     IF f = "partner_address" THEN OrNull(row.partner_neighborhood)
     ELSE row[f]]

\* ({ partner_neighborhood, ...m }) => ({ ...m, partner_address })
Sanitized(row) ==
  [f \in (DOMAIN row \ {"partner_neighborhood"}) \cup {"partner_address"} |->
     IF f = "partner_address" THEN OrNull(row.partner_neighborhood)
     ELSE row[f]]

GetMatches(userId) ==
  /\ \A s \in Slots : run[s].pc \in {"idle", "done"}
  /\ edits < MaxGets
  /\ edits' = edits + 1
  /\ \E rows \in Orderings({ MatchRowFor(m, userId) :
                               m \in { x \in matches :
                                         x.user_a_id = userId
                                           \/ x.user_b_id = userId } }) :
       out' = [op |-> "GET matches", userId |-> userId, status |-> 200,
               body |-> [k \in 1..Len(rows) |-> Sanitized(rows[k])],
               \* history: the store the SELECT read
               store |-> matches]
  /\ UNCHANGED <<hood, put, users, prefs, matches, net, run, nextRun, lastDone,
                 interests>>

\* the interests held when the requests start
InterestChoices ==
  { {},
    { [from_user_id |-> "u2", to_user_id |-> "u1", direction |-> "TO_WORK"],
      [from_user_id |-> "u3", to_user_id |-> "u2", direction |-> "TO_WORK"] } }

InitGet ==
  /\ users = [u \in Users |-> IF u = "u1" THEN PtA
                               ELSE IF u = "u2" THEN PtB ELSE PtC]
  /\ prefs \in [Users -> {PrefsA, PrefsB}]
  /\ matches = {}
  /\ net \in { n \in NetChoices :
                 n.status1 = "OK" /\ n.status2 = "OK" /\ n.down = {} }
  /\ run = [s \in Slots |-> IdleRun]
  /\ nextRun = 1
  /\ lastDone = NoneDone
  /\ edits = 0
  /\ interests \in InterestChoices
  /\ out = NoOut
  /\ hood = HoodAtStart
  /\ put = [p \in PutSlots |-> NoPut]

NextGet ==
  \/ \E s \in SerialSlots : ComputeStep(s)
  \/ \E u \in Users : GetMatches(u)

SpecGet == InitGet /\ [][NextGet]_vars

(***************************************************************************)
(* POST and DELETE /api/interests                                          *)
(***************************************************************************)
\* ids and directions a request body may carry; "" is a missing field
BodyUserIds == Users \cup {"", "u9"}
BodyDirections == {"TO_WORK", "FROM_WORK", "SIDEWAYS", ""}

InterestRow(from, to, direction) ==
  [from_user_id |-> from, to_user_id |-> to, direction |-> direction]

\* faulty variant: no check that the target is another user
PostRejectionSelfAllowed(fromUserId, to_user_id, direction) ==
  IF to_user_id = "" \/ direction = "" THEN 400
  ELSE IF direction \notin {"TO_WORK", "FROM_WORK"} THEN 400
  ELSE IF to_user_id \notin Users THEN 404
  ELSE 0

\* the status of the rejection of a POST, 0 if it is not rejected
PostRejection(fromUserId, to_user_id, direction) ==
  IF to_user_id = "" \/ direction = "" THEN 400
  ELSE IF direction \notin {"TO_WORK", "FROM_WORK"} THEN 400
  ELSE IF to_user_id = fromUserId THEN 400
  ELSE IF to_user_id \notin Users THEN 404
  ELSE 0

\* faulty variant: an interest for the other direction counts as mutual
IsMutualAnyDirection(store, fromUserId, to_user_id, direction) ==
  \E d \in {"TO_WORK", "FROM_WORK"} :
    InterestRow(to_user_id, fromUserId, d) \in store

\* SELECT 1 FROM interests WHERE from_user_id = to_user_id AND
\* to_user_id = fromUserId AND direction = direction
IsMutual(store, fromUserId, to_user_id, direction) ==
  InterestRow(to_user_id, fromUserId, direction) \in store

\* POST /api/interests; the e-mail to the target changes no store
PostInterest(fromUserId, to_user_id, direction) ==
  /\ edits < MaxInterestOps
  /\ edits' = edits + 1
  /\ LET rejection == PostRejection(fromUserId, to_user_id, direction)
         \* INSERT ... ON CONFLICT (from_user_id, to_user_id, direction)
         \* DO NOTHING
         store == interests
                    \cup {InterestRow(fromUserId, to_user_id, direction)}
     IN IF rejection # 0
          THEN /\ interests' = interests
               /\ out' = [op |-> "POST interests", fromUserId |-> fromUserId,
                          to_user_id |-> to_user_id, direction |-> direction,
                          status |-> rejection, mutual |-> FALSE,
                          before |-> interests, after |-> interests]
          ELSE /\ interests' = store
               /\ out' = [op |-> "POST interests", fromUserId |-> fromUserId,
                          to_user_id |-> to_user_id, direction |-> direction,
                          status |-> 200,
                          mutual |-> IsMutual(store, fromUserId, to_user_id,
                                              direction),
                          before |-> interests, after |-> store]
  /\ UNCHANGED <<hood, put, users, prefs, matches, net, run, nextRun, lastDone>>

\* DELETE /api/interests
DeleteInterest(fromUserId, to_user_id, direction) ==
  /\ edits < MaxInterestOps
  /\ edits' = edits + 1
  /\ IF to_user_id = "" \/ direction = ""
       THEN /\ interests' = interests
            /\ out' = [op |-> "DELETE interests", fromUserId |-> fromUserId,
                       to_user_id |-> to_user_id, direction |-> direction,
                       status |-> 400, mutual |-> FALSE,
                       before |-> interests, after |-> interests]
       ELSE /\ interests' = interests
                   \ {InterestRow(fromUserId, to_user_id, direction)}
            /\ out' = [op |-> "DELETE interests", fromUserId |-> fromUserId,
                       to_user_id |-> to_user_id, direction |-> direction,
                       status |-> 200, mutual |-> FALSE,
                       before |-> interests,
                       after |-> interests
                         \ {InterestRow(fromUserId, to_user_id, direction)}]
  /\ UNCHANGED <<hood, put, users, prefs, matches, net, run, nextRun, lastDone>>

InitInterest ==
  /\ Init
  /\ users["u1"] = PtA /\ users["u3"] = PtC
  /\ prefs = [u \in Users |-> PrefsA]
  /\ ~net.apiKey

NextInterest ==
  \E u \in Users, to \in BodyUserIds, d \in BodyDirections :
    \/ PostInterest(u, to, d)
    \/ DeleteInterest(u, to, d)

SpecInterest == InitInterest /\ [][NextInterest]_vars

(***************************************************************************)
(* PUT /api/preferences, one action per awaited query.                     *)
(***************************************************************************)
T2500 == <<"2", "5", ":", "0", "0">>
T2600 == <<"2", "6", ":", "0", "0">>

\* days_of_week of a request body: absent, something that is not an array,
\* or an array of integers
DaysArray(items) == [kind |-> "array", items |-> items]
DaysMissing == [kind |-> "missing", items |-> <<>>]
DaysText == [kind |-> "text", items |-> <<>>]

Body(d, e, l, days, role) ==
  [direction |-> d, earliest_time |-> e, latest_time |-> l,
   days_of_week |-> days, role |-> role]

\* request bodies that pass the validation; "" and <<>> are absent fields
AcceptedBodies ==
  { Body(d, w[1], w[2], DaysArray(days), "DRIVER") :
      d \in {"TO_WORK", "FROM_WORK"},
      w \in { <<T0700, T0800>>, <<T2500, T2600>> },
      days \in { <<0, 1>>, <<7>> } }

\* the users whose connections send interleaved requests, and their bodies
PutUsers == {"u1", "u2"}
InterleavedBodies ==
  { Body("TO_WORK", T0700, T0800, DaysArray(<<0, 1>>), "DRIVER"),
    Body("TO_WORK", T0800, T0900, DaysArray(<<1, 2>>), "RIDER"),
    Body("FROM_WORK", T1700, T1800, DaysArray(<<0, 1>>), "DRIVER") }

\* request bodies with one fault each
FaultyBodies ==
  { Body(d, T0700, T0800, DaysArray(<<0, 1>>), "DRIVER") :
      d \in {"", "SIDEWAYS"} }
  \cup { Body("TO_WORK", e, T0800, DaysArray(<<0, 1>>), "DRIVER") :
           e \in { <<>>, <<"7", ":", "0", "0">>, T0800, T0900 } }
  \cup { Body("TO_WORK", T0700, l, DaysArray(<<0, 1>>), "DRIVER") :
           l \in { <<>>, <<"0", "8", "0", "0">> } }
  \cup { Body("TO_WORK", T0700, T0800, days, "DRIVER") :
           days \in { DaysMissing, DaysText, DaysArray(<<>>) } }
  \cup { Body("TO_WORK", T0700, T0800, DaysArray(<<0, 1>>), role) :
           role \in {"", "BOSS"} }

\* /^\d{2}:\d{2}$/
timeRe(t) ==
  /\ Len(t) = 5
  /\ IsDigit(t[1]) /\ IsDigit(t[2]) /\ t[3] = ":"
  /\ IsDigit(t[4]) /\ IsDigit(t[5])

\* faulty variant: a latest time equal to the earliest passes
PutRejectionEqualAllowed(body) ==
  IF \/ body.direction = "" \/ body.earliest_time = <<>>
     \/ body.latest_time = <<>> \/ body.days_of_week.kind = "missing"
     \/ body.role = ""
    THEN "Missing required fields"
  ELSE IF body.direction \notin {"TO_WORK", "FROM_WORK"}
    THEN "Invalid direction"
  ELSE IF body.role \notin {"DRIVER", "RIDER", "EITHER"} THEN "Invalid role"
  ELSE IF body.days_of_week.kind # "array"
            \/ Len(body.days_of_week.items) = 0
    THEN "Select at least one day"
  ELSE IF ~timeRe(body.earliest_time) \/ ~timeRe(body.latest_time)
    THEN "Invalid time format"
  ELSE IF timeToMinutes(body.latest_time) < timeToMinutes(body.earliest_time)
    THEN "Latest departure must be after earliest departure"
  ELSE ""

\* the error of the 400 answer, "" if the body passes the validation
PutRejection(body) ==
  IF \/ body.direction = "" \/ body.earliest_time = <<>>
     \/ body.latest_time = <<>> \/ body.days_of_week.kind = "missing"
     \/ body.role = ""
    THEN "Missing required fields"
  ELSE IF body.direction \notin {"TO_WORK", "FROM_WORK"}
    THEN "Invalid direction"
  ELSE IF body.role \notin {"DRIVER", "RIDER", "EITHER"} THEN "Invalid role"
  ELSE IF body.days_of_week.kind # "array"
            \/ Len(body.days_of_week.items) = 0
    THEN "Select at least one day"
  ELSE IF ~timeRe(body.earliest_time) \/ ~timeRe(body.latest_time)
    THEN "Invalid time format"
  ELSE IF timeToMinutes(body.latest_time) <= timeToMinutes(body.earliest_time)
    THEN "Latest departure must be after earliest departure"
  ELSE ""

\* faulty variant: the table accepts a second row for a user and direction
NoUniqueViolation(rows, direction) == FALSE

\* the table holds one row per user and direction: an INSERT of a second one
\* fails
UniqueViolation(rows, direction) ==
  \E k \in 1..Len(rows) : rows[k].direction = direction

\* the requests that have arrived so far
PutsServed ==
  LET last == { put[p].served : p \in PutSlots }
  IN CHOOSE n \in last : \A m \in last : m <= n

\* the request arrives and is validated
PutPreference(p, u, body) ==
  /\ put[p].pc \in {"idle", "done"}
  /\ PutsServed < MaxPuts
  /\ LET r == [NoPut EXCEPT !.userId = u, !.served = PutsServed + 1,
                            !.direction = body.direction,
                            !.earliest_time = body.earliest_time,
                            !.latest_time = body.latest_time,
                            !.days_of_week = body.days_of_week,
                            !.role = body.role]
         error == PutRejection(body)
     IN put' = [put EXCEPT ![p] =
                  IF error # ""
                    THEN [r EXCEPT !.pc = "done", !.status = 400,
                                   !.error = error]
                    ELSE [r EXCEPT !.pc = "select"]]
  /\ UNCHANGED <<users, prefs, matches, net, run, nextRun, lastDone, edits,
                 interests, out, hood>>

\* SELECT id FROM commute_preferences WHERE user_id = $1 AND direction = $2
PutSelect(p) ==
  /\ put[p].pc = "select"
  /\ LET r == put[p]
         found == SelectSeq(prefs[r.userId],
                            LAMBDA row : row.direction = r.direction)
     IN put' = [put EXCEPT ![p] =
                  [r EXCEPT !.pc = "write",
                            !.existing = [k \in 1..Len(found) |-> found[k].id],
                            !.ops = Append(r.ops, "SELECT id")]]
  /\ UNCHANGED <<users, prefs, matches, net, run, nextRun, lastDone, edits,
                 interests, out, hood>>

\* UPDATE ... WHERE id = existing[0].id, or INSERT
PutWrite(p) ==
  /\ put[p].pc = "write"
  /\ LET r == put[p]
         rows == prefs[r.userId]
         \* a fresh id (uuidv4()): no two requests share one
         row == [id |-> r.served, direction |-> r.direction,
                 earliest_time |-> r.earliest_time,
                 latest_time |-> r.latest_time,
                 days_of_week |-> r.days_of_week.items, role |-> r.role]
     IN IF Len(r.existing) > 0
          THEN /\ prefs' = [prefs EXCEPT ![r.userId] =
                             [k \in 1..Len(rows) |->
                                IF rows[k].id = r.existing[1]
                                  THEN [row EXCEPT !.id = rows[k].id,
                                                   !.direction =
                                                      rows[k].direction]
                                  ELSE rows[k]]]
               /\ put' = [put EXCEPT ![p] =
                            [r EXCEPT !.pc = "read",
                                      !.ops = Append(r.ops, "UPDATE")]]
        ELSE IF UniqueViolation(rows, r.direction)
          THEN /\ prefs' = prefs
               /\ put' = [put EXCEPT ![p] =
                            [r EXCEPT !.pc = "done", !.status = 500,
                                      !.error = "duplicate key",
                                      !.ops = Append(r.ops, "INSERT failed")]]
          ELSE /\ prefs' = [prefs EXCEPT ![r.userId] = Append(rows, row)]
               /\ put' = [put EXCEPT ![p] =
                            [r EXCEPT !.pc = "read",
                                      !.ops = Append(r.ops, "INSERT")]]
  /\ UNCHANGED <<users, matches, net, run, nextRun, lastDone, edits,
                 interests, out, hood>>

\* SELECT * FROM commute_preferences WHERE user_id = $1, and the answer
PutRead(p) ==
  /\ put[p].pc = "read"
  /\ put' = [put EXCEPT ![p] =
               [put[p] EXCEPT !.pc = "done", !.status = 200,
                              !.rows = prefs[put[p].userId],
                              !.ops = Append(put[p].ops, "SELECT *")]]
  /\ UNCHANGED <<users, prefs, matches, net, run, nextRun, lastDone, edits,
                 interests, out, hood>>

PutStep(p, who, bodies) ==
  \/ \E u \in who, body \in bodies : PutPreference(p, u, body)
  \/ PutSelect(p)
  \/ PutWrite(p)
  \/ PutRead(p)

InitPref ==
  /\ Init
  /\ users["u1"] = PtA /\ users["u3"] = PtC
  /\ prefs \in { [u \in Users |-> <<>>], [u \in Users |-> PrefsA] }
  /\ ~net.apiKey

\* PUT requests of two connections, interleaved, and preference deletions
NextPref ==
  \/ \E p \in PutSlots : PutStep(p, PutUsers, InterleavedBodies)
  \/ \E u \in PutUsers, d \in {"TO_WORK", "FROM_WORK"} :
       DeletePreference(u, d)

SpecPref == InitPref /\ [][NextPref]_vars

\* PUT requests of one connection, one after the other, with every body
NextPut == PutStep(1, Users, AcceptedBodies \cup FaultyBodies)

SpecPut == InitPref /\ [][NextPut]_vars

(***************************************************************************)
(* PUT /api/profile                                                        *)
(***************************************************************************)
\* a request body: home_address is "" when absent, a coordinate is NULL
\* when absent
ProfileBody(address, lat, lng) ==
  [home_address |-> address, home_lat |-> lat, home_lng |-> lng]

ProfileBodies ==
  { ProfileBody("1 Main St", NULL, NULL),
    ProfileBody("", PtF.lat, PtF.lng),
    ProfileBody("1 Main St", PtG.lat, PtG.lng),
    ProfileBody("", NULL, NULL),
    ProfileBody("", 0, PtA.lng),
    ProfileBody("1 Main St", PtA.lat, 0) }

\* what the geocoding service answers: no result (or the fetch throws), or
\* a first result with its location and the name found in its
\* address_components, if any
NoResults == [found |-> FALSE, location |-> NoHome, hood |-> NullText]
GeocodeAnswers ==
  { NoResults,
    [found |-> TRUE, location |-> PtF, hood |-> "Maple Bluff"],
    [found |-> TRUE, location |-> PtB, hood |-> NullText] }

\* x || null of a number
NumberOrNull(x) == IF Falsy(x) THEN NULL ELSE x

\* faulty variant: the matches of the user are dropped with the old place
PutProfileClearing(u, body, answer) ==
  /\ \A s \in Slots : run[s].pc \in {"idle", "done"}
  /\ edits < MaxEdits
  /\ edits' = edits + 1
  /\ LET asked == body.home_address # ""
                    /\ (Falsy(body.home_lat) \/ Falsy(body.home_lng))
         located == asked /\ answer.found
         lat == IF located THEN answer.location.lat ELSE body.home_lat
         lng == IF located THEN answer.location.lng ELSE body.home_lng
         neighborhood == IF located THEN answer.hood ELSE NullText
         row == [lat |-> NumberOrNull(lat), lng |-> NumberOrNull(lng)]
     IN /\ users' = [users EXCEPT ![u] = row]
        /\ hood' = [hood EXCEPT ![u] = neighborhood]
        /\ matches' = DeleteMatchesOf(matches, u)
        /\ out' = [op |-> "PUT profile", userId |-> u, status |-> 200,
                   home_lat |-> body.home_lat, home_lng |-> body.home_lng,
                   body |-> [home_lat |-> row.lat, home_lng |-> row.lng,
                             home_neighborhood |-> neighborhood],
                   \* history: the compute requests started so far
                   started |-> nextRun - 1]
  /\ UNCHANGED <<put, prefs, net, run, nextRun, lastDone, interests>>

\* the whole handler: geocode if an address came without both coordinates,
\* UPDATE users, SELECT the row
PutProfile(u, body, answer) ==
  /\ \A s \in Slots : run[s].pc \in {"idle", "done"}
  /\ edits < MaxEdits
  /\ edits' = edits + 1
  /\ LET asked == body.home_address # ""
                    /\ (Falsy(body.home_lat) \/ Falsy(body.home_lng))
         located == asked /\ answer.found
         lat == IF located THEN answer.location.lat ELSE body.home_lat
         lng == IF located THEN answer.location.lng ELSE body.home_lng
         neighborhood == IF located THEN answer.hood ELSE NullText
         row == [lat |-> NumberOrNull(lat), lng |-> NumberOrNull(lng)]
     IN /\ users' = [users EXCEPT ![u] = row]
        /\ hood' = [hood EXCEPT ![u] = neighborhood]
        /\ out' = [op |-> "PUT profile", userId |-> u, status |-> 200,
                   home_lat |-> body.home_lat, home_lng |-> body.home_lng,
                   body |-> [home_lat |-> row.lat, home_lng |-> row.lng,
                             home_neighborhood |-> neighborhood],
                   \* history: the compute requests started so far
                   started |-> nextRun - 1]
  /\ UNCHANGED <<put, prefs, matches, net, run, nextRun, lastDone, interests>>

\* every request that writes a store, and GET /api/matches, served one
\* after the other
InitStale ==
  /\ Init
  /\ users = [u \in Users |-> IF u = "u1" THEN PtA
                               ELSE IF u = "u2" THEN PtB ELSE PtC]
  /\ prefs = [u \in Users |-> PrefsA]
  /\ net.apiKey /\ net.status1 = "OK" /\ net.status2 = "OK" /\ net.down = {}

\* the user who edits, and the preferences that user may PUT
EditUsers == {"u2"}
StaleBodies ==
  { Body("TO_WORK", T2500, T2600, DaysArray(<<0, 1>>), "DRIVER"),
    Body("FROM_WORK", T1700, T1800, DaysArray(<<0, 1>>), "DRIVER") }

StaleProfiles ==
  { ProfileBody("1 Main St", NULL, NULL), ProfileBody("", PtF.lat, PtF.lng) }

NextStale ==
  \/ /\ put[1].pc \in {"idle", "done"}
     /\ \E s \in SerialSlots : ComputeStepOf(s, {"u1"})
  \/ /\ \A s \in Slots : run[s].pc \in {"idle", "done"}
     /\ PutStep(1, EditUsers, StaleBodies)
  \/ \E u \in EditUsers, d \in {"TO_WORK", "FROM_WORK"} :
       DeletePreference(u, d)
  \/ \E u \in EditUsers, body \in StaleProfiles, answer \in GeocodeAnswers :
       PutProfile(u, body, answer)
  \/ \E u \in EditUsers :
       \/ PostInterest(u, "u1", "TO_WORK")
       \/ DeleteInterest(u, "u1", "TO_WORK")
  \/ GetMatches("u1")

SpecStale == InitStale /\ [][NextStale]_vars

\* a user sets a home with the profile PUT and asks for matches
NextHome ==
  \/ \E s \in SerialSlots : ComputeStepOf(s, EditUsers)
  \/ \E u \in EditUsers, body \in ProfileBodies, answer \in GeocodeAnswers :
       PutProfile(u, body, answer)

SpecHome == InitConc /\ [][NextHome]_vars

(***************************************************************************)
(* Properties.                                                             *)
(***************************************************************************)
Involves(m, u) == m.user_a_id = u \/ m.user_b_id = u
Answered(s) == run[s].pc = "done"
Answered200(s) == run[s].pc = "done" /\ run[s].response.status = 200

\* the index of the candidate a row of request r is about
CandidateIndex(r, m) ==
  CHOOSE i \in 1..Len(r.candidates) : r.candidates[i].id = m.user_b_id

\* C1: once a compute request of user U is answered 200 (requests do not
\* interleave), the stored rows that involve U on either side are exactly
\* the rows this request inserted, all of them carrying this request's ids;
\* no row of an earlier request that involves U is left.
C1_ReplaceOnRecompute ==
  \A s \in Slots :
    Answered200(s) =>
      LET r == run[s]
      IN /\ { m \in matches : Involves(m, r.userId) } = r.inserted
         /\ \A m \in matches : Involves(m, r.userId) => m.id[1] = r.runNo
         /\ \A m \in r.before : Involves(m, r.userId) => m \notin matches

\* a request that found earlier rows with its user on each side, and that
\* inserted rows of its own
C1_Witness ==
  \E s \in Slots :
    /\ Answered200(s)
    /\ run[s].inserted # {}
    /\ \E m \in run[s].before : m.user_a_id = run[s].userId
    /\ \E m \in run[s].before : m.user_b_id = run[s].userId

\* C2: when a user's compute request is answered 200 and the last request
\* answered 200 before it was the same user's, under the same users,
\* preferences and routing answers, the store holds the same contents (ids
\* aside) and as many rows as after the earlier one, and the same list is
\* returned.
C2_IdempotentRecompute ==
  \A s \in Slots :
    (/\ Answered200(s)
     /\ run[s].prevDone.user = run[s].userId
     /\ run[s].prevDone.inputs = lastDone.inputs
     /\ lastDone.user = run[s].userId) =>
      /\ lastDone.content = run[s].prevDone.content
      /\ lastDone.count = run[s].prevDone.count
      /\ lastDone.returned = run[s].prevDone.returned

\* a second request in a row of a user with at least two matches
C2_Witness ==
  \E s \in Slots :
    /\ Answered200(s)
    /\ run[s].prevDone.user = run[s].userId
    /\ run[s].prevDone.inputs = lastDone.inputs
    /\ lastDone.user = run[s].userId
    /\ Len(lastDone.returned) >= 2
    /\ \E m \in matches : ~Involves(m, run[s].userId)

\* C3: a compute request whose user has no home location, or no commute
\* preference, is answered 400 after reading at most the user and the
\* user's preferences: no load of the other users, no routing request, no
\* DELETE and no INSERT, and the store is what it was when the request came.
C3_PreconditionFailureNoEffect ==
  \A s \in Slots :
    LET r == run[s]
    IN (/\ Answered(s)
        /\ \/ r.currentUser.lat = NULL \/ r.currentUser.lng = NULL
           \/ r.myPrefs = <<>>) =>
         /\ r.response.status = 400
         /\ r.response.error \in {"home address", "preferences"}
         /\ \A k \in 1..Len(r.ops) : r.ops[k] \in {"SELECT user", "SELECT prefs"}
         /\ matches = r.before
         /\ r.inserted = {}

\* a user with stored matches whose request is refused for want of
\* preferences
C3_Witness ==
  \E s \in Slots :
    /\ Answered(s)
    /\ run[s].response.status = 400
    /\ run[s].response.error = "preferences"
    /\ \E m \in matches : Involves(m, run[s].userId)

\* C4: a candidate whose detour is above the threshold has none of its
\* preference combinations examined and gets no row; a candidate whose
\* detour is at or below the threshold is not stopped by the gate.
C4_HardDetourGate ==
  \A s \in Slots :
    LET r == run[s]
    IN \A i \in 1..Len(r.detours) :
         /\ r.detours[i] > DETOUR_THRESHOLD =>
              /\ i \notin r.paired
              /\ \A m \in r.inserted : m.user_b_id # r.candidates[i].id
         /\ r.detours[i] <= DETOUR_THRESHOLD => i \in r.paired

\* one request with a candidate exactly at the threshold that got a row and
\* a candidate above it, with an acceptable combination, that got none
C4_Witness ==
  \E s \in Slots :
    LET r == run[s]
    IN /\ Answered200(s)
       /\ \E i \in 1..Len(r.detours) :
            /\ r.detours[i] = DETOUR_THRESHOLD
            /\ \E m \in r.inserted : m.user_b_id = r.candidates[i].id
       /\ \E i \in 1..Len(r.detours) :
            /\ r.detours[i] > DETOUR_THRESHOLD
            /\ \E a \in 1..Len(r.myPrefs), b \in 1..Len(r.prefsRead[i]) :
                 Accepts(r.myPrefs[a], r.prefsRead[i][b])

\* the combinations (candidate, myPref, otherPref) of request r that pass
\* the gate and the three tests, stated over what the request read
AcceptedCombinations(r) ==
  { c \in UNION { { <<i, a, b>> : a \in 1..Len(r.myPrefs),
                                    b \in 1..Len(r.prefsRead[i]) } :
                    i \in 1..Len(r.prefsRead) } :
      /\ r.detours[c[1]] <= DETOUR_THRESHOLD
      /\ LET my == r.myPrefs[c[2]]
             other == r.prefsRead[c[1]][c[3]]
             bothRider == my.role = "RIDER" /\ other.role = "RIDER"
             days == { my.days_of_week[k] : k \in 1..Len(my.days_of_week) }
                       \cap { other.days_of_week[k] :
                                k \in 1..Len(other.days_of_week) }
             from == Max(timeToMinutes(my.earliest_time),
                         timeToMinutes(other.earliest_time))
             to == Min(timeToMinutes(my.latest_time),
                       timeToMinutes(other.latest_time))
         IN /\ my.direction = other.direction
            /\ ~bothRider
            /\ days # {}
            /\ to - from > 0 }

\* C5: once a request is answered 200, each accepted combination of each
\* candidate that passed the gate has exactly one stored row and one
\* returned entry, the others none, and the returned count is the number of
\* accepted combinations.
C5_PairingCardinality ==
  \A s \in Slots :
    Answered200(s) =>
      LET r == run[s]
          acc == AcceptedCombinations(r)
      IN /\ r.response.computed = Cardinality(acc)
         /\ Len(r.response.matches) = Cardinality(acc)
         /\ Cardinality(r.inserted) = Cardinality(acc)
         /\ \A i \in 1..Len(r.candidates), d \in {"TO_WORK", "FROM_WORK"} :
              Cardinality({ m \in r.inserted :
                              m.user_b_id = r.candidates[i].id
                              /\ m.direction = d })
                = Cardinality({ c \in acc : c[1] = i
                                  /\ r.myPrefs[c[2]].direction = d })
         /\ \A m \in r.inserted :
              Cardinality({ k \in 1..Len(r.response.matches) :
                              r.response.matches[k].id = m.id }) = 1

\* a request with two accepted combinations for one candidate and a
\* refused combination of equal direction for another
C5_Witness ==
  \E s \in Slots :
    LET r == run[s]
    IN /\ Answered200(s)
       /\ \E i \in 1..Len(r.candidates) :
            Cardinality({ m \in r.inserted :
                            m.user_b_id = r.candidates[i].id }) = 2
       /\ \E i \in r.paired :
            /\ \A m \in r.inserted : m.user_b_id # r.candidates[i].id
            /\ \E a \in 1..Len(r.myPrefs), b \in 1..Len(r.prefsRead[i]) :
                 r.myPrefs[a].direction = r.prefsRead[i][b].direction

\* the stored row behind a returned entry
RowOf(r, e) == CHOOSE m \in r.inserted : m.id = e.id

\* C6: the returned list is in ascending order of its rank_score values.
C6_ReturnedSorted ==
  \A s \in Slots :
    Answered200(s) =>
      LET list == run[s].response.matches
      IN \A k \in 1..(Len(list) - 1) :
           list[k].rank_score <= list[k + 1].rank_score

\* a returned list whose order is not the order of insertion
C6_Witness ==
  \E s \in Slots :
    /\ Answered200(s)
    /\ Len(run[s].response.matches) >= 2
    /\ run[s].response.matches # run[s].newMatches
    /\ \E k \in 1..(Len(run[s].response.matches) - 1) :
         run[s].response.matches[k].rank_score
           < run[s].response.matches[k + 1].rank_score

\* C7: of two returned matches with different unrounded rank scores, the
\* one with the smaller unrounded score comes first.
C7_OrderedByRawScore ==
  \A s \in Slots :
    Answered200(s) =>
      LET r == run[s]
          list == r.response.matches
      IN \A j \in 1..Len(list), k \in 1..Len(list) :
           (j < k /\ RowOf(r, list[j]).rank_score # RowOf(r, list[k]).rank_score)
             => RowOf(r, list[j]).rank_score < RowOf(r, list[k]).rank_score

\* x units is t tenths when rounded to one decimal place, halves upwards
IsRounded(x, t) ==
  /\ t * (Scale \div 10) - (Scale \div 20) <= x
  /\ x < t * (Scale \div 10) + (Scale \div 20)

\* C8: every stored row has rank_score = detour * 1.0 - overlap * 0.5; the
\* rows of a request store the detour as it was computed for the candidate,
\* unrounded, and the returned entry of a row carries the row's detour and
\* score rounded to one decimal place and its overlap.
C8_RankScoreFormula ==
  /\ \A m \in matches :
       10 * m.rank_score = 10 * m.detour_minutes
                             - 5 * m.time_overlap_minutes * Scale
  /\ \A s \in Slots :
       LET r == run[s]
       IN /\ \A m \in r.inserted :
               /\ m.detour_minutes = r.detours[CandidateIndex(r, m)]
               /\ 10 * m.rank_score = 10 * m.detour_minutes
                                        - 5 * m.time_overlap_minutes * Scale
          /\ \A k \in 1..Len(r.newMatches) :
               LET e == r.newMatches[k]
               IN /\ \E m \in r.inserted : m.id = e.id
                  /\ IsRounded(RowOf(r, e).detour_minutes, e.detour_minutes)
                  /\ IsRounded(RowOf(r, e).rank_score, e.rank_score)
                  /\ e.time_overlap_minutes = RowOf(r, e).time_overlap_minutes

\* a stored row whose detour and score are not whole tenths
C8_Witness ==
  \E s \in Slots :
    \E m \in run[s].inserted :
      /\ m \in matches
      /\ m.detour_minutes % (Scale \div 10) # 0
      /\ m.rank_score % (Scale \div 10) # 0
      /\ m.time_overlap_minutes > 0

\* a routing request was made by request r
Fetched(r) == \E k \in 1..Len(r.ops) : r.ops[k] = "fetch"

\* the estimated-mode detour of candidate i of request r, stated over the
\* table of distances
EstimatedDetour(r, i) ==
  LET viaOther == haversine(r.currentUser, r.candidates[i].home)
                    + haversine(r.candidates[i].home, WorkPoint)
      direct == haversine(r.currentUser, WorkPoint)
  IN IF viaOther - direct > 0 THEN 2 * (viaOther - direct) ELSE 0

\* C9: when a key is configured and a batched lookup answers a status other
\* than OK or fails with a network error, the request is still answered 200
\* and each of its candidates is scored with the estimated-mode detour.
C9_RoutingFailureNotFatal ==
  \A s \in Slots :
    LET r == run[s]
    IN (/\ Answered(s)
        /\ Fetched(r)
        /\ net.status1 # "OK" \/ net.status2 # "OK") =>
         /\ r.response.status = 200
         /\ Len(r.detours) = Len(r.candidates)
         /\ \A i \in 1..Len(r.candidates) :
              r.detours[i] = EstimatedDetour(r, i)

\* a request whose first lookup failed with a network error and that
\* still returned a match
C9_Witness ==
  \E s \in Slots :
    /\ Answered(s)
    /\ Fetched(run[s])
    /\ net.status1 = "THROW"
    /\ run[s].response.computed >= 1

\* the exact-mode detour of candidate i of request r, stated over the
\* service's durations
DriveDetour(r, i) ==
  LET sum == durationValue(r.currentUser, r.candidates[i].home)
               + durationValue(r.candidates[i].home, WorkPoint)
               - durationValue(r.currentUser, WorkPoint)
  IN IF sum > 0 THEN sum * (Scale \div 60) ELSE 0

LegsAvailable(r, i) ==
  /\ <<r.currentUser, r.candidates[i].home>> \notin net.down
  /\ <<r.candidates[i].home, WorkPoint>> \notin net.down

\* C10: when both lookups succeed overall, a candidate with an unavailable
\* leg is scored with the estimated-mode detour, and every candidate whose
\* two legs and the requester-to-destination leg are available is scored
\* with the exact-mode detour.
C10_FallbackPerCandidate ==
  \A s \in Slots :
    LET r == run[s]
    IN (/\ Answered(s)
        /\ Fetched(r)
        /\ net.status1 = "OK" /\ net.status2 = "OK") =>
         \A i \in 1..Len(r.candidates) :
           /\ ~LegsAvailable(r, i) => r.detours[i] = EstimatedDetour(r, i)
           /\ (LegsAvailable(r, i)
               /\ <<r.currentUser, WorkPoint>> \notin net.down)
                => r.detours[i] = DriveDetour(r, i)

\* a request with one candidate scored in estimated mode for a missing leg
\* and another scored in exact mode
C10_Witness ==
  \E s \in Slots :
    LET r == run[s]
    IN /\ Answered(s)
       /\ Fetched(r)
       /\ net.status1 = "OK" /\ net.status2 = "OK"
       /\ \E i \in 1..Len(r.candidates), j \in 1..Len(r.candidates) :
            /\ ~LegsAvailable(r, i)
            /\ r.detours[i] = EstimatedDetour(r, i)
            /\ r.detours[i] # DriveDetour(r, i)
            /\ LegsAvailable(r, j)
            /\ r.detours[j] = DriveDetour(r, j)
            /\ r.detours[j] # EstimatedDetour(r, j)

\* the duration of a leg in minutes (units), as the service reports it
LegMinutes(o, d) == durationValue(o, d) * (Scale \div 60)

\* C11: a candidate for which the requester-to-candidate,
\* candidate-to-destination and requester-to-destination durations have all
\* been received is scored max(0, d2c_i + c2d_i - d2d), where entry i of
\* either list is the duration of candidate i's own leg, in the order the
\* candidates were sent; no detour of any candidate, in either mode, is
\* negative.
C11_ExactDetour ==
  \A s \in Slots :
    LET r == run[s]
    IN \A i \in 1..Len(r.detours) :
         /\ r.detours[i] >= 0
         /\ (/\ r.driverToRiderMin # <<>> /\ r.riderToWorkMin # <<>>
             /\ r.driverToWorkMin # NULL
             /\ r.driverToRiderMin[i] # NULL /\ r.riderToWorkMin[i] # NULL) =>
               /\ r.driverToRiderMin[i] =
                    LegMinutes(r.currentUser, r.candidates[i].home)
               /\ r.riderToWorkMin[i] =
                    LegMinutes(r.candidates[i].home, WorkPoint)
               /\ r.driverToWorkMin = LegMinutes(r.currentUser, WorkPoint)
               /\ LET d == r.driverToRiderMin[i] + r.riderToWorkMin[i]
                             - r.driverToWorkMin
                  IN r.detours[i] = IF d < 0 THEN 0 ELSE d

\* a request with two candidates scored from the received durations: for
\* one the difference is negative and the detour is 0, for the other the
\* detour is the positive difference
C11_Witness ==
  \E s \in Slots :
    LET r == run[s]
    IN /\ Answered200(s)
       /\ Len(r.detours) = 2
       /\ r.driverToRiderMin # <<>> /\ r.riderToWorkMin # <<>>
       /\ r.driverToWorkMin # NULL
       /\ \A i \in 1..2 :
            r.driverToRiderMin[i] # NULL /\ r.riderToWorkMin[i] # NULL
       /\ \E i \in 1..2, j \in 1..2 :
            /\ r.driverToRiderMin[i] + r.riderToWorkMin[i] < r.driverToWorkMin
            /\ r.detours[i] = 0
            /\ r.detours[j] > 0
            /\ r.detours[j] = r.driverToRiderMin[j] + r.riderToWorkMin[j]
                                - r.driverToWorkMin

\* the number of operations `op` request r has issued
Count(r, op) == Cardinality({ k \in 1..Len(r.ops) : r.ops[k] = op })

\* C12: a request that passed its preconditions without a configured key,
\* or whose pre-filtered candidate set is empty, issues no routing lookup
\* at all, scores every candidate max(0, 2 * (dist(requester, candidate) +
\* dist(candidate, destination) - dist(requester, destination))) and is
\* answered 200.
C12_EstimatedModeSelfContained ==
  \A s \in Slots :
    LET r == run[s]
    IN (/\ Count(r, "DELETE") > 0
        /\ ~net.apiKey \/ Len(r.candidates) = 0) =>
         /\ Count(r, "fetch") = 0
         /\ r.sent = <<>>
         /\ \A i \in 1..Len(r.detours) :
              r.detours[i] =
                Max(0, 2 * (haversine(r.currentUser, r.candidates[i].home)
                            + haversine(r.candidates[i].home, WorkPoint)
                            - haversine(r.currentUser, WorkPoint)))
         /\ Answered(s) => /\ r.response.status = 200
                           /\ Len(r.detours) = Len(r.candidates)

\* a request answered without a key that scored two candidates, one of them
\* with a positive estimated detour, and returned a match
C12_Witness ==
  \E s \in Slots :
    LET r == run[s]
    IN /\ Answered200(s)
       /\ ~net.apiKey
       /\ Count(r, "fetch") = 0
       /\ Len(r.detours) = 2
       /\ \E i \in 1..2 : r.detours[i] > 0
       /\ r.response.computed >= 1

\* the users whose home a Distance Matrix request of r carried
SentUsers(r) ==
  { u \in Users :
      \E k \in 1..Len(r.sent) :
        \/ \E o \in 1..Len(r.sent[k].origins) :
             r.sent[k].origins[o] = users[u] /\ u # r.userId
        \/ \E d \in 1..Len(r.sent[k].destinations) :
             r.sent[k].destinations[d] = users[u] }

\* the users with a home within the distance threshold of r's requester
Near(r) ==
  { u \in Users \ {r.userId} :
      /\ r.currentUser # NoHome
      /\ users[u] # NoHome
      /\ haversine(r.currentUser, users[u]) <= DISTANCE_THRESHOLD_MI * Scale }

\* C13: the users whose home is sent in a routing lookup, whose preferences
\* are read, or who appear in a stored or returned match of a request are
\* all within distanceThresholdMiles of the requester in a straight line;
\* every other user with a home at that distance or closer, the threshold
\* itself included, is a candidate.
C13_PrefilterFirst ==
  \A s \in Slots :
    LET r == run[s]
    IN /\ SentUsers(r) \subseteq Near(r)
       /\ \A k \in 1..Len(r.examined) : r.examined[k] \in Near(r)
       /\ \A m \in r.inserted : m.user_b_id \in Near(r)
       /\ \A k \in 1..Len(r.response.matches) :
            r.response.matches[k].partner_name \in Near(r)
       /\ Count(r, "DELETE") > 0 =>
            { r.candidates[k].id : k \in 1..Len(r.candidates) } = Near(r)
       /\ Answered200(s) =>
            { r.examined[k] : k \in 1..Len(r.examined) } = Near(r)

\* a request with one user exactly at the threshold, who was sent to the
\* routing service, had preferences read and got a match, and another user
\* beyond the threshold, who was left out
C13_Witness ==
  \E s \in Slots :
    LET r == run[s]
    IN /\ Answered200(s)
       /\ \E u \in Users, v \in Users :
            /\ users[u] # NoHome
            /\ haversine(r.currentUser, users[u]) = DISTANCE_THRESHOLD
            /\ u \in SentUsers(r)
            /\ \E k \in 1..Len(r.examined) : r.examined[k] = u
            /\ \E m \in matches : m.user_a_id = r.userId /\ m.user_b_id = u
            /\ v # r.userId /\ users[v] # NoHome
            /\ haversine(r.currentUser, users[v]) > DISTANCE_THRESHOLD
            /\ v \notin SentUsers(r)
            /\ \A k \in 1..Len(r.candidates) : r.candidates[k].id # v

\* C14: a request issues at most two routing lookups and at most one
\* delete, the delete before every routing lookup and every insert; a
\* request answered 200 has issued exactly one delete and exactly one
\* insert per accepted combination.
C14_ExternalOperations ==
  \A s \in Slots :
    LET r == run[s]
    IN /\ Count(r, "fetch") <= 2
       /\ Count(r, "DELETE") <= 1
       /\ \A k \in 1..Len(r.ops) :
            r.ops[k] \in {"fetch", "INSERT"} =>
              \E j \in 1..(k - 1) : r.ops[j] = "DELETE"
       /\ Answered200(s) =>
            /\ Count(r, "DELETE") = 1
            /\ Count(r, "INSERT") = Cardinality(AcceptedCombinations(r))

\* a request answered 200 after one delete, two routing lookups and at
\* least two inserts
C14_Witness ==
  \E s \in Slots :
    LET r == run[s]
    IN /\ Answered200(s)
       /\ Count(r, "DELETE") = 1
       /\ Count(r, "fetch") = 2
       /\ Count(r, "INSERT") >= 2
       /\ Count(r, "INSERT") = Cardinality(AcceptedCombinations(r))

\* the minutes since midnight of a string of two digits, a colon and two
\* digits
IsTimeOfDay(t) ==
  /\ Len(t) = 5
  /\ IsDigit(t[1]) /\ IsDigit(t[2]) /\ t[3] = ":"
  /\ IsDigit(t[4]) /\ IsDigit(t[5])
MinutesOfDay(t) ==
  60 * (10 * DigitVal(t[1]) + DigitVal(t[2]))
    + 10 * DigitVal(t[4]) + DigitVal(t[5])

DaySet(days) == { days[k] : k \in 1..Len(days) }

\* C15: computeOverlap returns as commonDays the days of the first list that
\* are in the second, that is the intersection of the two lists; when it is
\* empty the result is 0 minutes and no days whatever the windows; otherwise
\* overlapMinutes is max(0, min(latest1, latest2) - max(earliest1,
\* earliest2)), so that windows that only touch give 0.
C15_ScheduleOverlap ==
  out.op = "computeOverlap" =>
    LET e1 == MinutesOfDay(out.args[1])
        l1 == MinutesOfDay(out.args[2])
        e2 == MinutesOfDay(out.args[4])
        l2 == MinutesOfDay(out.args[5])
        common == DaySet(out.args[3]) \cap DaySet(out.args[6])
        lo == IF e1 >= e2 THEN e1 ELSE e2
        hi == IF l1 <= l2 THEN l1 ELSE l2
    IN /\ ~out.threw
       /\ DaySet(out.value.commonDays) = common
       /\ common = {} => /\ out.value.overlapMinutes = 0
                         /\ out.value.commonDays = <<>>
       /\ common # {} =>
            out.value.overlapMinutes = (IF hi > lo THEN hi - lo ELSE 0)

\* a call with common days whose windows touch at 08:00 and overlap 0
C15_Witness ==
  /\ out.op = "computeOverlap"
  /\ out.args[2] = T0800 /\ out.args[4] = T0800
  /\ out.args[1] = T0700 /\ out.args[5] = T0900
  /\ out.value.commonDays = <<1, 2>>
  /\ out.value.overlapMinutes = 0

\* C16: rolesCompatible is false exactly when both roles are RIDER, true for
\* the other eight pairs of DRIVER, RIDER and EITHER, and gives the same
\* answer with its arguments exchanged.
C16_RolesCompatible ==
  out.op = "rolesCompatible" =>
    /\ ~out.threw
    /\ out.value = (out.args # <<"RIDER", "RIDER">>)
    /\ out.value = rolesCompatible(out.args[2], out.args[1])

\* a rider paired with EITHER is compatible
C16_Witness ==
  /\ out.op = "rolesCompatible"
  /\ out.args = <<"RIDER", "EITHER">>
  /\ out.value = TRUE

C18_GetMatches ==
  out.op = "GET matches" =>
    LET U == out.userId
        mine == { m \in out.store : m.user_a_id = U \/ m.user_b_id = U }
    IN /\ Len(out.body) = Cardinality(mine)
       /\ \A m \in mine : \E k \in 1..Len(out.body) : out.body[k].id = m.id
       /\ \A k \in 1..Len(out.body) :
            LET e == out.body[k]
                m == CHOOSE x \in mine : x.id = e.id
            IN /\ e.partner_id \in {m.user_a_id, m.user_b_id} \ {U}
               /\ "partner_neighborhood" \notin DOMAIN e
               /\ e.partner_address =
                    (IF e.partner_id = "u1" THEN "Downtown"
                     ELSE IF e.partner_id = "u2" THEN "Shorewood"
                     ELSE NullText)

\* a GET that returned a row the user's own request inserted and a row
\* another user's request inserted, one with a neighborhood and one with a
\* null partner_address
C18_Witness ==
  /\ out.op = "GET matches"
  /\ \E j \in 1..Len(out.body), k \in 1..Len(out.body) :
       /\ out.body[j].user_a_id = out.userId
       /\ out.body[k].user_b_id = out.userId
       /\ out.body[j].partner_address # out.body[k].partner_address
       /\ NullText \in {out.body[j].partner_address,
                        out.body[k].partner_address}

\* C19: a POST /api/interests with a missing field, a direction other than
\* TO_WORK and FROM_WORK or the caller as target is answered 400, one for
\* an unknown target 404, and neither changes the interests; no stored
\* interest is from a user to that same user.
C19_RejectedInterestNotStored ==
  /\ \A i \in interests : i.from_user_id # i.to_user_id
  /\ out.op = "POST interests" =>
       LET bad400 == \/ out.to_user_id = "" \/ out.direction = ""
                     \/ out.direction \notin {"TO_WORK", "FROM_WORK"}
                     \/ out.to_user_id = out.fromUserId
           bad404 == ~bad400 /\ out.to_user_id \notin Users
       IN /\ bad400 => out.status = 400
          /\ bad404 => out.status = 404
          /\ (bad400 \/ bad404) => out.after = out.before
          /\ out.status # 200 => out.after = out.before

\* a user who already holds an interest names themselves as target: 400,
\* and the interests are as before
C19_Witness ==
  /\ out.op = "POST interests"
  /\ out.to_user_id = out.fromUserId
  /\ out.direction = "TO_WORK"
  /\ out.status = 400
  /\ out.before # {}
  /\ interests = out.before

\* C20: an accepted POST /api/interests from A to B answers mutual = true
\* exactly when the interests then hold a row from B to A for the same
\* direction.
C20_MutualDetection ==
  (out.op = "POST interests" /\ out.status = 200) =>
    out.mutual =
      (\E i \in out.after : /\ i.from_user_id = out.to_user_id
                            /\ i.to_user_id = out.fromUserId
                            /\ i.direction = out.direction)

\* an accepted POST answered mutual = false although the target holds an
\* interest in the caller for the other direction
C20_Witness ==
  /\ out.op = "POST interests"
  /\ out.status = 200
  /\ ~out.mutual
  /\ \E i \in out.after : /\ i.from_user_id = out.to_user_id
                           /\ i.to_user_id = out.fromUserId
                           /\ i.direction # out.direction

\* a request body the validation has to refuse, stated over its fields
Refusable(r) ==
  \/ r.direction = "" \/ r.earliest_time = <<>> \/ r.latest_time = <<>>
  \/ r.days_of_week.kind = "missing" \/ r.role = ""
  \/ r.direction \notin {"TO_WORK", "FROM_WORK"}
  \/ r.role \notin {"DRIVER", "RIDER", "EITHER"}
  \/ r.days_of_week.kind # "array" \/ r.days_of_week.items = <<>>
  \/ ~IsTimeOfDay(r.earliest_time) \/ ~IsTimeOfDay(r.latest_time)
  \/ MinutesOfDay(r.latest_time) <= MinutesOfDay(r.earliest_time)

\* C21: a PUT /api/preferences whose body misses a field, names a direction
\* other than TO_WORK and FROM_WORK or a role other than DRIVER, RIDER and
\* EITHER, carries days_of_week that is empty or not an array, a time that
\* is not two digits, a colon and two digits, or a latest time not after
\* the earliest, is answered 400 without any query on the preferences; no
\* request answered 400 has issued a query.
C21_PutValidation ==
  \A p \in PutSlots :
    LET r == put[p]
    IN /\ (r.pc # "idle" /\ Refusable(r)) =>
            r.pc = "done" /\ r.status = 400 /\ r.ops = <<>>
       /\ r.status = 400 => Refusable(r) /\ r.ops = <<>>

\* a request whose latest time equals its earliest time, refused with 400
\* and no query, while the user holds preferences
C21_Witness ==
  \E p \in PutSlots :
    LET r == put[p]
    IN /\ r.pc = "done"
       /\ r.status = 400
       /\ r.earliest_time = T0800 /\ r.latest_time = T0800
       /\ r.ops = <<>>
       /\ prefs[r.userId] # <<>>

HasOp(r, op) == \E k \in 1..Len(r.ops) : r.ops[k] = op

\* C22: the preferences hold at most one row per user and direction,
\* whatever PUT and DELETE requests have been served and however the
\* queries of two PUT requests interleave; a PUT that found a row for its
\* user and direction updates it and inserts nothing, one that found none
\* inserts and updates nothing, and one answered 200 did one of the two.
C22_OnePreferencePerDirection ==
  /\ \A u \in Users, d \in {"TO_WORK", "FROM_WORK"} :
       Cardinality({ k \in 1..Len(prefs[u]) : prefs[u][k].direction = d }) <= 1
  /\ \A p \in PutSlots :
       LET r == put[p]
       IN /\ HasOp(r, "UPDATE") => r.existing # <<>> /\ ~HasOp(r, "INSERT")
          /\ HasOp(r, "INSERT") => r.existing = <<>> /\ ~HasOp(r, "UPDATE")
          /\ r.status = 200 => HasOp(r, "UPDATE") \/ HasOp(r, "INSERT")

\* two PUT requests of one user for one direction that both found no row:
\* one inserted and was answered 200, the INSERT of the other failed, and
\* the user holds one row for the direction
C22_Witness ==
  /\ put[1].pc = "done" /\ put[2].pc = "done"
  /\ put[1].userId = put[2].userId
  /\ put[1].direction = put[2].direction
  /\ put[1].existing = <<>> /\ put[2].existing = <<>>
  /\ HasOp(put[1], "SELECT id") /\ HasOp(put[2], "SELECT id")
  /\ \E p \in PutSlots, q \in PutSlots :
       /\ put[p].status = 200 /\ HasOp(put[p], "INSERT")
       /\ put[q].status = 500
  /\ Cardinality({ k \in 1..Len(prefs[put[1].userId]) :
                     prefs[put[1].userId][k].direction = put[1].direction }) = 1

\* C23: every stored preference has earliest and latest times that are
\* minutes of the day in 0..1439 with earliest before latest, and a
\* non-empty days_of_week whose elements are all in 0..6.
C23_StoredPreferencesValid ==
  \A u \in Users :
    \A k \in 1..Len(prefs[u]) :
      LET row == prefs[u][k]
      IN /\ IsTimeOfDay(row.earliest_time) /\ IsTimeOfDay(row.latest_time)
         /\ MinutesOfDay(row.earliest_time) \in 0..1439
         /\ MinutesOfDay(row.latest_time) \in 0..1439
         /\ MinutesOfDay(row.earliest_time) < MinutesOfDay(row.latest_time)
         /\ row.days_of_week # <<>>
         /\ \A j \in 1..Len(row.days_of_week) : row.days_of_week[j] \in 0..6

\* requests s and t are of the same user, both answered 200, and each
\* issued its DELETE before the other had inserted a row
DeletesBeforeInserts(s, t) ==
  /\ s # t
  /\ Answered200(s) /\ Answered200(t)
  /\ run[s].userId = run[t].userId
  /\ run[t].runNo \notin run[s].peerInserted
  /\ run[s].runNo \notin run[t].peerInserted

\* C24: when two compute requests of one user interleave so that both
\* DELETEs are issued before either request inserts, and the requests
\* insert at all, the store ends up with two rows that agree on the user,
\* the candidate, the direction and every computed value and differ in
\* their ids only.
C24_InterleavedRunsDuplicate ==
  \A s \in Slots, t \in Slots :
    (DeletesBeforeInserts(s, t) /\ run[s].inserted # {}) =>
      /\ run[s].inserted \cup run[t].inserted \subseteq matches
      /\ \A m \in run[s].inserted :
           \E n \in run[t].inserted : n.id # m.id /\ Content(n) = Content(m)

\* two interleaved requests of one user, answered 200, that left two rows
\* for the same candidate and direction in the store
C24_Witness ==
  \E s \in Slots, t \in Slots :
    /\ DeletesBeforeInserts(s, t)
    /\ \E m \in matches, n \in matches :
         /\ m.id[1] = run[s].runNo /\ n.id[1] = run[t].runNo
         /\ m.user_a_id = run[s].userId /\ n.user_a_id = run[s].userId
         /\ m.user_b_id = n.user_b_id
         /\ m.direction = n.direction

\* the rows of a store that involve both users
Between(store, a, b) == { m \in store : Involves(m, a) /\ Involves(m, b) }

\* C25: when the compute request of user B is answered 200 after the
\* compute request of another user A was (requests do not interleave),
\* every stored row that involves both A and B was inserted by B's
\* request and has B as user_a; if B's request inserted no row for A, no
\* stored row involves both, whatever A's request had stored.
C25_CounterpartOverwrites ==
  \A s \in Slots :
    (Answered200(s) /\ run[s].prevDone # NoneDone
                    /\ run[s].prevDone.user # run[s].userId) =>
      LET r == run[s]
          A == r.prevDone.user
          B == r.userId
      IN /\ \A m \in Between(matches, A, B) :
              /\ m.user_a_id = B
              /\ m \in r.inserted
              /\ m.id[1] = r.runNo
         /\ (\A m \in r.inserted : m.user_b_id # A) =>
              Between(matches, A, B) = {}

\* A's request stored a row with B, B's request then ran, rejected A and
\* left no row between them
C25_Witness ==
  \E s \in Slots :
    /\ Answered200(s)
    /\ run[s].prevDone # NoneDone
    /\ run[s].prevDone.user # run[s].userId
    /\ \E c \in run[s].prevDone.content :
         c.user_a_id = run[s].prevDone.user /\ c.user_b_id = run[s].userId
    /\ run[s].inserted # {}
    /\ Between(matches, run[s].prevDone.user, run[s].userId) = {}

\* every user holds at most one preference per direction
OnePerDirection ==
  \A u \in Users : \A i \in 1..Len(prefs[u]), j \in 1..Len(prefs[u]) :
    prefs[u][i].direction = prefs[u][j].direction => i = j

\* C26: when compute requests do not interleave and every user holds at
\* most one preference per direction, the store never holds two rows for
\* the same unordered pair of users and the same direction: neither two
\* (A,B) rows nor an (A,B) row next to a (B,A) row.
C26_PairUniqueness ==
  OnePerDirection =>
    \A m \in matches, n \in matches :
      ( /\ {m.user_a_id, m.user_b_id} = {n.user_a_id, n.user_b_id}
        /\ m.direction = n.direction ) => m = n

\* a request of B answered after A's request had stored an (A,B) row, and
\* the store now holds the (B,A) row of that direction
C26_Witness ==
  /\ OnePerDirection
  /\ \E s \in Slots :
       /\ Answered200(s)
       /\ run[s].prevDone # NoneDone
       /\ \E c \in run[s].prevDone.content, m \in matches :
            /\ c.user_a_id = m.user_b_id /\ c.user_b_id = m.user_a_id
            /\ c.direction = m.direction
            /\ m.user_a_id = run[s].userId

\* C27: a step of the compute request of user U adds only rows with
\* user_a = U and user_b other than U, and neither removes nor changes a
\* stored row that has another user on both sides.
C27_ComputeFrame ==
  [][\A s \in Slots :
       run'[s] # run[s] =>
         LET U == run'[s].userId
         IN /\ \A m \in matches' \ matches :
                 m.user_a_id = U /\ m.user_b_id # U
            /\ \A m \in matches : ~Involves(m, U) => m \in matches'
            /\ \A m \in matches' : ~Involves(m, U) => m \in matches]_vars

\* a request answered 200 that inserted rows, with a row of two other
\* users that was stored before the request and still is
C27_Witness ==
  \E s \in Slots :
    /\ Answered200(s)
    /\ run[s].inserted # {}
    /\ \E m \in run[s].before :
         ~Involves(m, run[s].userId) /\ m \in matches

\* the two users of a stored row pass the gates that do not depend on the
\* routing service, with the profiles us and the preferences ps: both
\* located, within the distance threshold, and a pair of their preferences
\* of the row's direction is accepted
PairsIn(m, us, ps) ==
  LET a == m.user_a_id
      b == m.user_b_id
  IN /\ ~Falsy(us[a].lat) /\ ~Falsy(us[a].lng)
     /\ us[b].lat # NULL /\ us[b].lng # NULL
     /\ WithinDistance(us[a], [id |-> b, home |-> us[b]])
     /\ \E i \in 1..Len(ps[a]), j \in 1..Len(ps[b]) :
          /\ ps[a][i].direction = m.direction
          /\ Accepts(ps[a][i], ps[b][j])

StillPairs(m) == PairsIn(m, users, prefs)

\* C28: a step of any request other than compute (PUT or DELETE of a
\* preference, PUT of the profile, POST or DELETE of an interest, GET of
\* the matches) leaves the match store as it is; GET /api/matches returns
\* every stored row of its user, whether or not the two users still pass
\* the gates; and when a compute request is answered 200, every stored
\* row of its user passes them again.
C28_MatchesChangeOnlyOnCompute ==
  [][ /\ run' = run => matches' = matches
      /\ (out' # out /\ out'.op = "GET matches") =>
           /\ out'.store = matches
           /\ Len(out'.body)
                = Cardinality({ m \in matches : Involves(m, out'.userId) })
      /\ \A s \in Slots :
           (run'[s] # run[s] /\ run'[s].pc = "done"
              /\ run'[s].response.status = 200) =>
             \A m \in matches' :
               Involves(m, run'[s].userId) => PairsIn(m, users', prefs') ]_vars

\* GET /api/matches has returned a row that is still stored although its
\* two users no longer pass the gates
C28_Witness ==
  /\ out.op = "GET matches"
  /\ out.store = matches
  /\ \E m \in matches :
       /\ Involves(m, out.userId)
       /\ ~StillPairs(m)
       /\ \E k \in 1..Len(out.body) : out.body[k].id = m.id

\* the request in slot s ended on a rejected query
Failed(s) ==
  /\ run[s].pc \in {"done", "failed"}
  /\ run[s].response.status \in FailureStatuses

\* C29: when the SELECT of a candidate's preferences or an INSERT is
\* rejected in the middle of a compute request of user U, the request is
\* not answered 200 and returns no match list, and the store is left with
\* none of the rows of U that were there before the request, with exactly
\* the rows the request inserted before the failure, and with the rows of
\* the other users as they were: nothing is rolled back.
C29_NoRollback ==
  \A s \in Slots :
    Failed(s) =>
      LET r == run[s]
      IN /\ r.response.status # 200
         /\ r.response.matches = <<>>
         /\ lastDone = r.prevDone
         /\ { m \in matches : Involves(m, r.userId) } = r.inserted
         /\ \A m \in r.before : Involves(m, r.userId) => m \notin matches
         /\ { m \in matches : ~Involves(m, r.userId) }
              = { m \in r.before : ~Involves(m, r.userId) }

\* a request that found rows of its user, inserted some rows and then had
\* an INSERT rejected
C29_Witness ==
  \E s \in Slots :
    /\ Failed(s)
    /\ run[s].ops[Len(run[s].ops)] = "INSERT"
    /\ run[s].inserted # {}
    /\ \E m \in run[s].before : Involves(m, run[s].userId)
    /\ Cardinality({ m \in run[s].before : Involves(m, run[s].userId) })
         > Cardinality(run[s].inserted)

\* the request r was started after its user had PUT a profile with both
\* coordinates given as numbers, and no profile PUT came later
GaveCoordinates(r) ==
  /\ out.op = "PUT profile"
  /\ out.userId = r.userId
  /\ out.started < r.runNo
  /\ out.home_lat # NULL
  /\ out.home_lng # NULL

====
